---- MODULE Spec2Model ----
(***************************************************************************)
(* XTulator286: the interrupt dispatcher (cpu_intcall), the external IRQ   *)
(* acceptance (cpu_interruptCheck), the fetch/decode loop (cpu_exec), the  *)
(* descriptor loader and the 8259 interrupt controller, as a state machine *)
(* over the CPU structure, the physical memory and the two PICs.           *)
(***************************************************************************)
EXTENDS Integers, Sequences, FiniteSets, TLC

VARIABLES cpu,      \* CPU_t together with physical memory, a20_enabled and the event log
          pic,      \* master I8259_t
          pic2,     \* slave I8259_t
          phase,    \* position of the host main loop
          last,     \* what the last step did (observation of one handler run)
          cmos,     \* CMOS_t: the battery-backed RAM behind ports 70h/71h
          kbc       \* I8042_t: the keyboard controller behind ports 60h/64h

vars == <<cpu, pic, pic2, phase, last, cmos, kbc>>

----------------------------------------------------------------------------
(* Bounds of the model *)

MaxPrefix == 11      \* longest run of prefix bytes placed before an opcode
MaxCount == 2        \* largest initial CX of a repeated string instruction
MaxIrqLine == 0      \* IRQ lines 0..MaxIrqLine are raised by devices
MaxCallbacks == 1    \* host callbacks registered at start-up
MaxIrqs == 2         \* IRQs raised by devices in one run
MaxPicWrites == 4    \* port writes to the interrupt controllers in one run
MaxKeys == 2         \* scancodes the host sends in one run
MaxKbcWrites == 1    \* guest writes to ports 60h/64h in one run
MaxFpuOps == 10      \* loads and stores of the FPU stack in one run

----------------------------------------------------------------------------
(* Fixed-width arithmetic *)

W16(x) == x % 65536
W8(x) == x % 256

RECURSIVE BitAnd(_, _)
BitAnd(x, y) ==
  IF x = 0 \/ y = 0 THEN 0
  ELSE (x % 2) * (y % 2) + 2 * BitAnd(x \div 2, y \div 2)

RECURSIVE BitOr(_, _)
BitOr(x, y) ==
  IF x = 0 THEN y
  ELSE IF y = 0 THEN x
  ELSE (IF (x % 2) + (y % 2) > 0 THEN 1 ELSE 0) + 2 * BitOr(x \div 2, y \div 2)

RECURSIVE BitXor(_, _)
BitXor(x, y) ==
  IF x = 0 THEN y
  ELSE IF y = 0 THEN x
  ELSE (((x % 2) + (y % 2)) % 2) + 2 * BitXor(x \div 2, y \div 2)

Bit(x, k) == (x \div (2 ^ k)) % 2

Lo(w) == w % 256
Hi(w) == (w \div 256) % 256

----------------------------------------------------------------------------
(* Physical memory: a map from the addresses ever written (or preloaded)   *)
(* to bytes; every other byte of RAM reads as zero.                        *)

cpu_read(s, addr) == IF addr \in DOMAIN s.mem THEN s.mem[addr] ELSE 0

cpu_write(s, addr, value) ==
  [s EXCEPT !.mem = [a \in (DOMAIN s.mem) \cup {addr} |->
                        IF a = addr THEN W8(value) ELSE s.mem[a]]]

cpu_writew(s, addr32, value) ==
  cpu_write(cpu_write(s, addr32, Lo(value)), addr32 + 1, Hi(value))

cpu_readw(s, addr32) == cpu_read(s, addr32) + 256 * cpu_read(s, addr32 + 1)

read_24bit_base(s, addr) ==
  cpu_read(s, addr) + 256 * cpu_read(s, addr + 1) + 65536 * cpu_read(s, addr + 2)

Log(s, kind, arg) == [s EXCEPT !.ev = Append(@, <<kind, arg>>)]

----------------------------------------------------------------------------
(* Flags word *)

makeflagsword(s) ==
  2 + s.cf + 4 * s.pf + 16 * s.af + 64 * s.zf + 128 * s.sf
    + 256 * s.tf + 512 * s.ifl + 1024 * s.df + 2048 * s.of

decodeflagsword(s, w) ==
  [s EXCEPT !.cf = Bit(w, 0), !.pf = Bit(w, 2), !.af = Bit(w, 4),
            !.zf = Bit(w, 6), !.sf = Bit(w, 7), !.tf = Bit(w, 8),
            !.ifl = Bit(w, 9), !.df = Bit(w, 10), !.of = Bit(w, 11)]

----------------------------------------------------------------------------
(* Descriptor caches and reset *)

NullCache == [base |-> 0, limit |-> 0, access |-> 0, valid |-> FALSE]
NullTrCache == [base |-> 0, limit |-> 0, access |-> 0, valid |-> FALSE,
                sp0 |-> 0, ss0 |-> 0]
SegNames == {"es", "cs", "ss", "ds"}
RegNames == {"ax", "cx", "dx", "bx", "sp", "bp", "si", "di"}

(* variant: the FPU is left as it is *)
OpFinit_Keep(s) == s

OpFinit(s) == [s EXCEPT !.fpu = [cw |-> 895, sw |-> 0, tw |-> 65535]]

(* the state cpu_reset returns with, kept for inspection: the caller may *)
(* go on changing the machine after the reset                            *)
ResetView(r) ==
  [r EXCEPT !.atreset =
     [regs |-> r.regs, msw |-> r.msw, gdtr |-> r.gdtr, idtr |-> r.idtr,
      cs |-> r.segregs.cs, ip |-> r.ip, protected_mode |-> r.protected_mode,
      hltstate |-> r.hltstate, trap_toggle |-> r.trap_toggle,
      handling_fault |-> r.handling_fault, fpu |-> r.fpu,
      a20_enabled |-> r.a20_enabled,
      segregs |-> r.segregs, flags |-> makeflagsword(r),
      ldtr |-> r.ldtr, tr |-> r.tr, segcache |-> r.segcache,
      ldtr_cache |-> r.ldtr_cache, tr_cache |-> r.tr_cache]]

cpu_reset(s) ==
  LET r == [s EXCEPT
              !.int_callback = {},
              !.regs = [r \in RegNames |-> 0],
              !.segcache = [g \in SegNames |-> NullCache],
              !.ldtr_cache = NullCache,
              !.tr_cache = NullTrCache,
              !.msw = 65520,
              !.gdtr = [base |-> 0, limit |-> 65535],
              !.idtr = [base |-> 0, limit |-> 1023],
              !.handling_fault = FALSE,
              !.ldtr = 0,
              !.tr = 0,
              !.protected_mode = FALSE,
              !.a20_enabled = FALSE]
  IN ResetView([OpFinit(r) EXCEPT
        !.segregs = [@ EXCEPT !.cs = 61440],
        !.ip = 65520,
        !.hltstate = FALSE,
        !.trap_toggle = FALSE,
        !.ev = Append(@, <<"reset", 0>>)])

(* The zero-filled static MACHINE_t of main.c before machine start-up. *)
ZeroCpu(image) ==
  [regs |-> [r \in RegNames |-> 0],
   segregs |-> [g \in SegNames |-> 0],
   ip |-> 0, saveip |-> 0, savecs |-> 0, firstip |-> 0,
   cf |-> 0, pf |-> 0, af |-> 0, zf |-> 0, sf |-> 0,
   tf |-> 0, ifl |-> 0, df |-> 0, of |-> 0,
   msw |-> 0, protected_mode |-> FALSE,
   gdtr |-> [base |-> 0, limit |-> 0],
   idtr |-> [base |-> 0, limit |-> 0],
   ldtr |-> 0, tr |-> 0,
   ldtr_cache |-> NullCache, tr_cache |-> NullTrCache,
   segcache |-> [g \in SegNames |-> NullCache],
   handling_fault |-> FALSE, hltstate |-> FALSE, trap_toggle |-> FALSE,
   int_callback |-> {},
   reptype |-> 0, segoverride |-> 0, useseg |-> 0, opcode |-> 0,
   fpu |-> [cw |-> 0, sw |-> 0, tw |-> 0],
   a20_enabled |-> FALSE,
   mode |-> 0, reg |-> 0, rm |-> 0, disp16 |-> 0, ea |-> 0,
   kbc_command |-> 0,      \* the command latch of the keyboard controller
   res8 |-> 0, res16 |-> 0,
   depth |-> 0,            \* calls of cpu_intcall that have not returned
   fpu_st |-> [i \in 0..7 |-> <<0, 0, 0, 0>>],
   atreset |-> [regs |-> [r \in RegNames |-> 0], msw |-> 0,
                gdtr |-> [base |-> 0, limit |-> 0],
                idtr |-> [base |-> 0, limit |-> 0],
                cs |-> 0, ip |-> 0, protected_mode |-> FALSE,
                hltstate |-> FALSE, trap_toggle |-> FALSE,
                handling_fault |-> FALSE,
                fpu |-> [cw |-> 0, sw |-> 0, tw |-> 0],
                a20_enabled |-> FALSE,
                segregs |-> [g \in SegNames |-> 0], flags |-> 2,
                ldtr |-> 0, tr |-> 0,
                segcache |-> [g \in SegNames |-> NullCache],
                ldtr_cache |-> NullCache, tr_cache |-> NullTrCache],
   mem |-> image,
   io |-> <<>>,            \* port writes of the running step, for the port bus
   unmodelled |-> FALSE,   \* an opcode outside the modelled subset was dispatched
   ev |-> <<>>]

----------------------------------------------------------------------------
(* Segment translation, stack access, descriptor loading and the interrupt *)
(* dispatcher call each other; each takes the machine and returns it.  An  *)
(* operation that also returns a value yields [s |-> machine, v |-> value] *)
(* and the next statement of the source is applied to that result.         *)

RECURSIVE cpu_intcall(_, _)
RECURSIVE get_real_address(_, _, _)
RECURSIVE push(_, _)
RECURSIVE load_descriptor(_, _, _)

(* the cache translate_address_safe picks: CS, DS, ES, SS in that order *)
CacheFor(s, seg) ==
  IF seg = s.segregs.cs THEN "cs"
  ELSE IF seg = s.segregs.ds THEN "ds"
  ELSE IF seg = s.segregs.es THEN "es"
  ELSE IF seg = s.segregs.ss THEN "ss"
  ELSE "none"

(* the limit check on the chosen cache; the all-ones address returned with *)
(* a fault is written -1                                                   *)
TranslateIn(s, g, off) ==
  IF g = "none" THEN [fault |-> TRUE, addr |-> -1]
  ELSE IF ~s.segcache[g].valid THEN [fault |-> TRUE, addr |-> -1]
  ELSE IF off > s.segcache[g].limit THEN [fault |-> TRUE, addr |-> -1]
  ELSE [fault |-> FALSE, addr |-> s.segcache[g].base + off]

translate_address_safe(s, seg, off) ==
  IF ~s.protected_mode
    THEN [fault |-> FALSE, addr |-> seg * 16 + off]
    ELSE TranslateIn(s, CacheFor(s, seg), off)

(* if (fault) { cpu_intcall(cpu, 13); return 0; } return addr; *)
FaultOrAddress(s, t) ==
  IF t.fault THEN [s |-> cpu_intcall(s, 13), v |-> 0]
             ELSE [s |-> s, v |-> t.addr]

(* the 1 MB wrap of real mode while the A20 gate is closed *)
A20Mask(s, addr) == IF ~s.a20_enabled THEN addr % 1048576 ELSE addr

get_real_address(s, seg, off) ==
  IF s.protected_mode
    THEN FaultOrAddress(s, translate_address_safe(s, seg, off))
    ELSE [s |-> s, v |-> A20Mask(s, seg * 16 + off)]

ReadByteAt(r) == [s |-> r.s, v |-> cpu_read(r.s, r.v)]
ReadWordAt(r) == [s |-> r.s, v |-> cpu_readw(r.s, r.v)]
WriteByteAt(r, value) == cpu_write(r.s, r.v, value)
WriteWordAt(r, value) == cpu_writew(r.s, r.v, value)

getmem8(s, seg, off) == ReadByteAt(get_real_address(s, seg, off))

getmem16(s, seg, off) == ReadWordAt(get_real_address(s, seg, off))

putmem8(s, seg, off, value) == WriteByteAt(get_real_address(s, seg, off), value)

putmem16(s, seg, off, value) == WriteWordAt(get_real_address(s, seg, off), value)

(* putmem16(cpu, SS, SP, pushval) once SP is stepped down *)
PushAtSP(s, pushval) == putmem16(s, s.segregs.ss, s.regs.sp, pushval)

push(s, pushval) == PushAtSP([s EXCEPT !.regs.sp = W16(@ + 65534)], pushval)

(* SP = SP + 2; return tempval *)
PopStep(r) == [s |-> [r.s EXCEPT !.regs.sp = W16(@ + 2)], v |-> r.v]

pop(s) == PopStep(getmem16(s, s.segregs.ss, s.regs.sp))

(* base and limit of the table a selector indexes; ok is false when the *)
(* selector names the LDT and no LDT is loaded.                         *)
SelectorTable(s, selector) ==
  IF Bit(selector, 2) = 1
    THEN [ok |-> s.ldtr_cache.valid,
          base |-> s.ldtr_cache.base, limit |-> s.ldtr_cache.limit]
    ELSE [ok |-> TRUE, base |-> s.gdtr.base, limit |-> s.gdtr.limit]

(* the three fields read from the 8-byte descriptor at addr *)
DescriptorAt(s, addr) ==
  [ok |-> TRUE, limit |-> cpu_readw(s, addr),
   base |-> read_24bit_base(s, addr + 2), access |-> cpu_read(s, addr + 5)]

NoDescriptor == [ok |-> FALSE, base |-> 0, limit |-> 0, access |-> 0]

DescriptorIn(s, t, index) ==
  IF ~t.ok THEN NoDescriptor
  ELSE IF index * 8 + 7 > t.limit THEN NoDescriptor
  ELSE DescriptorAt(s, t.base + index * 8)

get_descriptor_info(s, selector) ==
  IF BitAnd(selector, 65532) = 0 THEN NoDescriptor
  ELSE DescriptorIn(s, SelectorTable(s, selector), selector \div 8)

(* the segment register and the selector of a load, as one number *)
LoadArg(seg_reg, selector) ==
  (IF seg_reg = "es" THEN 0 ELSE IF seg_reg = "cs" THEN 1
   ELSE IF seg_reg = "ss" THEN 2 ELSE 3) * 65536 + selector

SetSegCache(s, seg_reg, selector, d) ==
  [Log(s, "ldok", LoadArg(seg_reg, selector)) EXCEPT !.segcache[seg_reg] = [base |-> d.base, limit |-> d.limit,
                                   access |-> d.access, valid |-> TRUE],
            !.segregs[seg_reg] = selector]

(* the present, type and privilege checks on the descriptor read *)
LoadChecked(s, seg_reg, selector, d, cpl, rpl, dpl) ==
  IF Bit(d.access, 7) = 0 THEN cpu_intcall(s, 11)
  ELSE IF seg_reg = "ss" THEN
    IF rpl # cpl \/ dpl # cpl
         \/ ~(Bit(d.access, 3) = 0 /\ Bit(d.access, 1) = 1)
      THEN cpu_intcall(push(s, selector), 13)
      ELSE SetSegCache(s, seg_reg, selector, d)
  ELSE IF seg_reg = "cs" THEN
    IF Bit(d.access, 3) = 0 THEN cpu_intcall(s, 13)
    ELSE IF dpl > cpl THEN cpu_intcall(s, 13)
    ELSE SetSegCache(s, seg_reg, selector, d)
  ELSE
    IF ~(Bit(d.access, 3) = 0) /\ ~(BitAnd(d.access, 10) = 10)
      THEN cpu_intcall(s, 13)
    ELSE IF cpl > dpl \/ rpl > dpl THEN cpu_intcall(s, 13)
    ELSE SetSegCache(s, seg_reg, selector, d)

LoadRead(s, seg_reg, selector, d) ==
  LoadChecked(s, seg_reg, selector, d,
              s.segregs.cs % 4, selector % 4, (d.access \div 32) % 4)

(* the table checks, then the descriptor at table_base + index * 8 *)
LoadFrom(s, seg_reg, selector, t, index) ==
  IF ~t.ok THEN cpu_intcall(s, 13)
  ELSE IF index * 8 + 7 > t.limit THEN
    [cpu_intcall(s, 13) EXCEPT !.segcache[seg_reg].valid = FALSE]
  ELSE LoadRead(s, seg_reg, selector, DescriptorAt(s, t.base + index * 8))

LoadSelector(s, seg_reg, selector) ==
  IF BitAnd(selector, 65532) = 0 THEN
    IF seg_reg = "ss" THEN cpu_intcall(s, 13)
    ELSE [s EXCEPT !.segcache[seg_reg].valid = FALSE,
                   !.segregs[seg_reg] = selector]
  ELSE LoadFrom(s, seg_reg, selector, SelectorTable(s, selector),
                selector \div 8)

load_descriptor(s0, seg_reg, selector) ==
  LoadSelector(Log(s0, "ldreq", LoadArg(seg_reg, selector)), seg_reg, selector)

(* load_tr: the cache of the task register, the ring-0 stack of the TSS *)
(* and the busy bit of the descriptor                                   *)
TrLoadCache(s, selector, addr, access) ==
  [s EXCEPT !.tr_cache = [limit |-> cpu_readw(s, addr),
                          base |-> read_24bit_base(s, addr + 2),
                          access |-> BitOr(access, 2), valid |-> TRUE,
                          sp0 |-> @.sp0, ss0 |-> @.ss0],
            !.tr = selector]

TrLoadStack(c) ==
  [c EXCEPT !.tr_cache.sp0 = cpu_readw(c, c.tr_cache.base + 2),
            !.tr_cache.ss0 = cpu_readw(c, c.tr_cache.base + 4)]

(* variant: only an available TSS (type 1) is accepted *)
TrChecked_FreeOnly(s, selector, addr, access) ==
  IF access % 16 # 1 THEN cpu_intcall(s, 13)
  ELSE IF Bit(access, 7) = 0 THEN cpu_intcall(s, 11)
  ELSE cpu_write(TrLoadStack(TrLoadCache(s, selector, addr, access)),
                 addr + 5, BitOr(access, 2))

TrChecked(s, selector, addr, access) ==
  IF access % 16 # 1 /\ access % 16 # 3 THEN cpu_intcall(s, 13)
  ELSE IF Bit(access, 7) = 0 THEN cpu_intcall(s, 11)
  ELSE cpu_write(TrLoadStack(TrLoadCache(s, selector, addr, access)),
                 addr + 5, BitOr(access, 2))

TrFrom(s, selector, t, index) ==
  IF ~t.ok THEN cpu_intcall(s, 13)
  ELSE IF index * 8 + 7 > t.limit THEN cpu_intcall(s, 13)
  ELSE TrChecked(s, selector, t.base + index * 8,
                 cpu_read(s, t.base + index * 8 + 5))

TrSelector(s, selector) ==
  IF BitAnd(selector, 65532) = 0 THEN cpu_intcall(s, 0)
  ELSE TrFrom(s, selector, SelectorTable(s, selector), selector \div 8)

load_tr(s0, selector) == TrSelector(Log(s0, "trreq", selector), selector)

(* load_ldtr *)
LdtrChecked(s, addr, access) ==
  IF access % 32 # 2 THEN cpu_intcall(s, 13)
  ELSE IF Bit(access, 7) = 0 THEN cpu_intcall(s, 11)
  ELSE [s EXCEPT !.ldtr_cache = [limit |-> cpu_readw(s, addr),
                                 base |-> read_24bit_base(s, addr + 2),
                                 access |-> access, valid |-> TRUE]]

(* variant: a caller outside ring 0 is refused with interrupt 13 *)
LdtrSelector_Gp(s, selector) ==
  IF BitAnd(selector, 65532) = 0 THEN [s EXCEPT !.ldtr_cache.valid = FALSE]
  ELSE IF s.segregs.cs % 4 # 0 THEN cpu_intcall(s, 13)
  ELSE IF BitAnd(selector, 65532) > s.gdtr.limit THEN cpu_intcall(s, 13)
  ELSE LdtrChecked(s, s.gdtr.base + (selector \div 8) * 8,
                   cpu_read(s, s.gdtr.base + (selector \div 8) * 8 + 5))

LdtrSelector(s, selector) ==
  IF BitAnd(selector, 65532) = 0 THEN [s EXCEPT !.ldtr_cache.valid = FALSE]
  ELSE IF s.segregs.cs % 4 # 0 THEN cpu_intcall(s, 0)
  ELSE IF BitAnd(selector, 65532) > s.gdtr.limit THEN cpu_intcall(s, 13)
  ELSE LdtrChecked(s, s.gdtr.base + (selector \div 8) * 8,
                   cpu_read(s, s.gdtr.base + (selector \div 8) * 8 + 5))

load_ldtr(s0, selector) == LdtrSelector(Log(s0, "ldtreq", selector), selector)

----------------------------------------------------------------------------
(* Interrupt dispatcher *)

(* vectors that mark a fault in flight *)
IsFaultVector(intnum) ==
  intnum = 8 \/ intnum = 10 \/ intnum = 11 \/ intnum = 12 \/ intnum = 13

(* variant: the latch is left as it is on the way out *)
ClearFault_Skip(s) == s

(* cpu->handling_fault = 0 at the exits of cpu_intcall *)
ClearFault(s) == [s EXCEPT !.handling_fault = FALSE]

(* the two INT 15h functions emulated in the dispatcher itself *)
Intercepted(s, intnum) ==
  intnum = 21 /\ (Hi(s.regs.ax) = 136 \/ Hi(s.regs.ax) = 135)

PushCS(s) == push(s, s.segregs.cs)
PushIP(s) == push(s, s.ip)

(* cpu->segregs[regcs] = getmem16(cpu, 0, intnum * 4 + 2) *)
SetCS(r) == [r.s EXCEPT !.segregs.cs = r.v]
(* cpu->ip = getmem16(cpu, 0, intnum * 4) *)
SetIP(r) == [r.s EXCEPT !.ip = r.v]

LoadVectorCS(s, intnum) == SetCS(getmem16(s, 0, intnum * 4 + 2))
LoadVectorIP(s, intnum) == SetIP(getmem16(s, 0, intnum * 4))

(* variant: the flags word is built after IF and TF are cleared *)
IntcallReal_FlagsAfter(s, intnum) ==
  Log(LoadVectorIP(LoadVectorCS(
        PushIP(PushCS(push([s EXCEPT !.ifl = 0, !.tf = 0],
                           makeflagsword([s EXCEPT !.ifl = 0, !.tf = 0])))),
        intnum), intnum), "enter", intnum)

(* real-mode entry: frame, IF and TF cleared, CS:IP from the vector table *)
IntcallReal(s, intnum) ==
  Log(LoadVectorIP(LoadVectorCS(
        PushIP(PushCS(push([s EXCEPT !.ifl = 0, !.tf = 0],
                           makeflagsword(s)))),
        intnum), intnum), "enter", intnum)

RECURSIVE PushSeq(_, _)
PushSeq(s, vals) ==
  IF vals = <<>> THEN s ELSE PushSeq(push(s, Head(vals)), Tail(vals))

(* INT 15h AH=87h: the byte-by-byte block move *)
RECURSIVE BlockMove(_, _, _, _)
BlockMove(s, source_base, dest_base, num_bytes) ==
  IF num_bytes = 0 THEN s
  ELSE BlockMove(cpu_write(s, dest_base, cpu_read(s, source_base)),
                 source_base + 1, dest_base + 1, num_bytes - 1)

ErrorCode(intnum) ==
  IF intnum = 8 \/ (intnum >= 10 /\ intnum <= 13) THEN <<0>> ELSE <<>>

(* INT 15h AH=88h *)
Bios88(s) == [Log(s, "bios", 136) EXCEPT !.regs.ax = 15360, !.cf = 0]

Bios87Done(m) ==
  [Log(m, "bios", 135) EXCEPT !.cf = 0, !.regs.ax = m.regs.ax % 256, !.zf = 1]

Bios87Move(ta, num_bytes) ==
  Bios87Done(BlockMove(ta.s, read_24bit_base(ta.s, ta.v + 10),
                       read_24bit_base(ta.s, ta.v + 18), num_bytes))

(* INT 15h AH=87h *)
Bios87(s) ==
  Bios87Move(get_real_address(s, s.segregs.es, s.regs.si), s.regs.cx * 2)

(* the frame of a gate entry without a stack switch *)
SameFrame(s, intnum) ==
  PushSeq(s, <<makeflagsword(s), s.segregs.cs, s.ip>> \o ErrorCode(intnum))

(* cpu->segregs[regss] = new_ss; cpu->regs.wordregs[regsp] = new_sp *)
SwitchStack(a, new_ss, new_sp) ==
  [a EXCEPT !.segregs.ss = new_ss, !.regs.sp = new_sp]

(* the frame of a gate entry to an inner ring, on the stack of the TSS *)
InnerFrame(s, intnum) ==
  PushSeq(SwitchStack(load_descriptor(s, "ss", s.tr_cache.ss0),
                      s.tr_cache.ss0, s.tr_cache.sp0),
          <<s.segregs.ss, s.regs.sp, makeflagsword(s), s.segregs.cs, s.ip>>
            \o ErrorCode(intnum))

(* what follows load_descriptor(cpu, regcs, new_cs) *)
FinishEntry(b, intnum, gate) ==
  ClearFault([Log(b, "enter", intnum) EXCEPT
                !.segregs.cs = gate.new_cs,
                !.ip = gate.new_ip,
                !.tf = 0,
                !.ifl = IF gate.access % 32 = 6 THEN 0 ELSE @])

EnterGate(p, intnum, gate) ==
  FinishEntry(load_descriptor(p, "cs", gate.new_cs), intnum, gate)

(* the checks on the gate's target and the choice of the stack *)
GateTarget(s, intnum, gate, target) ==
  IF ~target.ok THEN cpu_intcall(s, 13)
  ELSE IF (target.access \div 32) % 4 < s.segregs.cs % 4 THEN
    IF ~s.tr_cache.valid THEN cpu_intcall(s, 8)
    ELSE EnterGate(InnerFrame(s, intnum), intnum, gate)
  ELSE EnterGate(SameFrame(s, intnum), intnum, gate)

GateRead(s, intnum, gate) ==
  IF Bit(gate.access, 7) = 0 THEN cpu_intcall(s, 11)
  ELSE GateTarget(s, intnum, gate, get_descriptor_info(s, gate.new_cs))

(* protected-mode entry through the IDT gate of intnum *)
IntcallProtected(s, intnum) ==
  IF intnum * 8 + 7 > s.idtr.limit THEN cpu_intcall(s, 8)
  ELSE GateRead(s, intnum,
                [access |-> cpu_read(s, s.idtr.base + intnum * 8 + 5),
                 new_ip |-> cpu_readw(s, s.idtr.base + intnum * 8),
                 new_cs |-> cpu_readw(s, s.idtr.base + intnum * 8 + 2)])

(* variant: a fault raised while one is in flight is dropped *)
Escalate_Drop(s, intnum) == s

(* if (cpu->handling_fault) ... : a fault raised while one is in flight *)
Escalate(s, intnum) ==
  IF intnum = 8 THEN cpu_reset(Log(s, "triple", intnum))
  ELSE cpu_intcall(Log(s, "double", intnum), 8)

(* the latch is set for the fault vectors *)
MarkFault(s, intnum) ==
  IF IsFaultVector(intnum) THEN [s EXCEPT !.handling_fault = TRUE] ELSE s

(* variant: the callback returns with the latch as MarkFault left it *)
InvokeCallback_KeepLatch(s, intnum) == Log(s, "callback", intnum)

(* the registered callback is called; cpu->handling_fault = 0 *)
InvokeCallback(s, intnum) == ClearFault(Log(s, "callback", intnum))

(* intercept, host callback, protected-mode gate or real-mode vector *)
Deliver(s, intnum) ==
  IF Intercepted(s, intnum)
    THEN (IF Hi(s.regs.ax) = 136 THEN Bios88(s) ELSE Bios87(s))
  ELSE IF intnum \in s.int_callback
    THEN InvokeCallback(s, intnum)
  ELSE IF s.protected_mode THEN IntcallProtected(s, intnum)
  ELSE ClearFault(IntcallReal(s, intnum))

(* the call is entered at one level of nesting more, and left again *)
IntEnter(s) == Log([s EXCEPT !.depth = @ + 1], "depth", s.depth + 1)

IntReturn(s) == [s EXCEPT !.depth = @ - 1]

IntDispatch(s, intnum) ==
  IF s.handling_fault
    THEN Escalate(s, intnum)
    ELSE Deliver(MarkFault(s, intnum), intnum)

cpu_intcall(s0, intnum) ==
  IntReturn(IntDispatch(IntEnter(Log(s0, "int", intnum)), intnum))

----------------------------------------------------------------------------
(* 8259 interrupt controllers *)

i8259_init(is_slave) ==
  [imr |-> 0, irr |-> 0, isr |-> 0, icwstep |-> 0,
   icw1 |-> 0, icw2 |-> 0, icw3 |-> 0, icw4 |-> 0,
   ocw2 |-> 0, ocw3 |-> 0, readmode |-> 0,
   intoffset |-> IF is_slave THEN 112 ELSE 8]

KBC_BUFFER_SIZE == 16

(* i8042_init: memset and the four registers it sets *)
i8042_init ==
  [status |-> 20, command |-> 0, output_port |-> 221, output_buffer |-> 0,
   command_byte |-> 69, input_port |-> 1,
   buffer |-> [i \in 0..(KBC_BUFFER_SIZE - 1) |-> 0], head |-> 0, tail |-> 0]

Not8(x) == 255 - x
Pending(p) == BitAnd(p.irr, Not8(p.imr))

(* lowest-numbered line set in an 8-bit value, 8 when none *)
LowestLine(tmpirr) ==
  IF tmpirr = 0 THEN 8 ELSE CHOOSE i \in 0..7 :
       Bit(tmpirr, i) = 1 /\ \A j \in 0..(i - 1) : Bit(tmpirr, j) = 0

Acknowledge(p, i) ==
  [p EXCEPT !.irr = BitAnd(@, Not8(2 ^ i)), !.isr = BitOr(@, 2 ^ i)]

(* i8259_nextintr on the slave, i its lowest pending line *)
SlaveLine(m, s, i) ==
  IF i = 8 THEN [m |-> m, s |-> s, v |-> 0]
  ELSE [m |-> m, s |-> Acknowledge(s, i), v |-> BitAnd(s.icw2, 248) + i]

(* i8259_nextintr on the master, i its lowest pending line *)
MasterLine(m, s, i) ==
  IF i = 8 THEN [m |-> m, s |-> s, v |-> 0]
  ELSE IF i = 2 THEN SlaveLine(m, s, LowestLine(Pending(s)))
  ELSE [m |-> Acknowledge(m, i), s |-> s, v |-> BitAnd(m.icw2, 248) + i]

i8259_nextintr(m, s) == MasterLine(m, s, LowestLine(Pending(m)))

RaiseLine(p, irqnum) ==
  [p EXCEPT !.irr = BitOr(@, BitAnd(2 ^ irqnum, Not8(p.imr)))]

(* OCW2: specific and non-specific end of interrupt *)
WriteOcw2(p, value) ==
  IF BitAnd(value, 224) = 96 THEN
    [p EXCEPT !.ocw2 = value,
              !.irr = BitAnd(@, Not8(2 ^ (value % 8))),
              !.isr = BitAnd(@, Not8(2 ^ (value % 8)))]
  ELSE IF BitAnd(value, 224) = 32 THEN
    [p EXCEPT !.ocw2 = value, !.irr = BitAnd(@, Not8(p.isr)), !.isr = 0]
  ELSE [p EXCEPT !.ocw2 = value]

i8259_write(p, portnum, value) ==
  IF portnum % 2 = 0 THEN
    IF Bit(value, 4) = 1 THEN
      [p EXCEPT !.imr = 0, !.icw1 = value, !.icwstep = 2, !.readmode = 0]
    ELSE IF Bit(value, 3) = 0 THEN WriteOcw2(p, value)
    ELSE
      [p EXCEPT !.ocw3 = value,
                !.readmode = IF Bit(value, 1) = 1 THEN value % 2 ELSE @]
  ELSE
    IF p.icwstep = 2 THEN
      [p EXCEPT !.icw2 = value, !.intoffset = value,
                !.icwstep = IF Bit(p.icw1, 1) = 1 THEN 5 ELSE 3]
    ELSE IF p.icwstep = 3 THEN
      [p EXCEPT !.icw3 = value,
                !.icwstep = IF Bit(p.icw1, 0) = 1 THEN 4 ELSE 5]
    ELSE IF p.icwstep = 4 THEN
      [p EXCEPT !.icw4 = value, !.icwstep = 5]
    ELSE IF p.icwstep = 5 THEN
      [p EXCEPT !.imr = value]
    ELSE p

----------------------------------------------------------------------------
(* CMOS RAM and real-time clock *)

(* static uint8_t to_bcd(int val) *)
to_bcd(val) == BitOr((val \div 10) * 16, val % 10) % 256

(* for (i = 0x10; i <= 0x2D; i++) checksum += cmos->ram[i], in 16 bits *)
RECURSIVE ChecksumFrom(_, _, _)
ChecksumFrom(ram, i, checksum) ==
  IF i > 45 THEN checksum
  ELSE ChecksumFrom(ram, i + 1, W16(checksum + ram[i]))

StoreChecksum(c, checksum) ==
  [c EXCEPT !.ram[46] = (checksum \div 256) % 256, !.ram[47] = checksum % 256]

cmos_init ==
  StoreChecksum(
    [ram |-> [i \in 0..127 |->
                IF i = 10 THEN 38 ELSE IF i = 11 THEN 2 ELSE IF i = 13 THEN 128
                ELSE IF i = 16 THEN 64 ELSE IF i \in {18, 25, 26} THEN 18
                ELSE IF i = 20 THEN 37 ELSE IF i = 21 THEN 128
                ELSE IF i = 22 THEN 2 ELSE IF i \in {24, 49} THEN 60 ELSE 0],
     index |-> 0, nmi_mask |-> 0],
    ChecksumFrom([i \in 0..127 |->
                    IF i = 16 THEN 64 ELSE IF i \in {18, 25, 26} THEN 18
                    ELSE IF i = 20 THEN 37 ELSE IF i = 21 THEN 128
                    ELSE IF i = 22 THEN 2 ELSE IF i = 24 THEN 60 ELSE 0],
                 16, 0))

(* variant: the data byte is stored and the checksum bytes are left alone *)
CmosStored_Stale(c) == c

(* the checksum is recomputed after a store to 0x10..0x2D *)
CmosStored(c) ==
  IF c.index >= 16 /\ c.index <= 45
    THEN StoreChecksum(c, ChecksumFrom(c.ram, 16, 0)) ELSE c

cmos_write(c, port, value) ==
  IF port = 112 THEN
    [c EXCEPT !.index = value % 128, !.nmi_mask = (value \div 128) % 2]
  ELSE IF port = 113 THEN CmosStored([c EXCEPT !.ram[c.index] = value])
  ELSE c

(* the byte cmos_read returns; tm is the field of the host clock that the *)
(* index selects                                                          *)
CmosReadValue(c, port, tm) ==
  IF port # 113 THEN 255
  ELSE IF c.index \in {0, 2, 4, 6, 7, 8, 9} THEN to_bcd(tm)
  ELSE IF c.index = 10 THEN 38 ELSE IF c.index = 11 THEN 2
  ELSE IF c.index = 13 THEN 128
  ELSE c.ram[c.index]

(* reading status register C clears it *)
cmos_read(c, port) ==
  IF port = 113 /\ c.index = 12 THEN [c EXCEPT !.ram[12] = 0] ELSE c

----------------------------------------------------------------------------
(* FPU register stack.  A double is kept as its four 16-bit words, most *)
(* significant first; fpu_st is cpu->fpu.st.                            *)

NegNaN == <<65528, 0, 0, 0>>

(* (cpu->fpu.sw & kFpuSwSp) >> 11 *)
FpuTop(s) == (s.fpu.sw \div 2048) % 8

(* the physical slot of logical register i; i is unsigned in C, so -1 *)
(* wraps to the slot below the top                                     *)
FpuSlot(s, i) == (i + 8 + FpuTop(s)) % 8

FpuGetTag(s, i) == (s.fpu.tw \div (4 ^ FpuSlot(s, i))) % 4

FpuSetTag(s, i, t) ==
  [s EXCEPT !.fpu.tw = @ - FpuGetTag(s, i) * (4 ^ FpuSlot(s, i))
                         + (t % 4) * (4 ^ FpuSlot(s, i))]

(* sw |= IE | C1 | SF *)
OnFpuStackOverflow(s) == [s EXCEPT !.fpu.sw = BitOr(@, 577)]

(* variant: the stack-fault bit is not set *)
OnFpuStackUnderflow_NoSf(s) == [s EXCEPT !.fpu.sw = BitAnd(BitOr(@, 1), 65023)]

(* sw |= IE | SF; sw &= ~C1; the caller gets -NaN *)
OnFpuStackUnderflow(s) == [s EXCEPT !.fpu.sw = BitAnd(BitOr(@, 65), 65023)]

(* sw = (sw & ~kFpuSwSp) | ((sw + delta) & kFpuSwSp) *)
FpuMoveTop(s, delta) ==
  [s EXCEPT !.fpu.sw = BitOr(BitAnd(@, 51199),
                             BitAnd(W16(@ + 65536 + delta), 14336))]

FpuOverflowCheck(s) ==
  IF FpuGetTag(s, -1) # 3 THEN OnFpuStackOverflow(s) ELSE s

FpuStoreSt0(s, x) == [s EXCEPT !.fpu_st[FpuSlot(s, 0)] = x]

FpuPush(s, x) ==
  FpuSetTag(FpuStoreSt0(FpuMoveTop(FpuOverflowCheck(s), -2048), x), 0, 0)

(* variant: the slot read keeps its tag *)
FpuPopRead_KeepTag(s) ==
  IF FpuGetTag(s, 0) # 3
    THEN [s |-> s, v |-> s.fpu_st[FpuSlot(s, 0)]]
    ELSE [s |-> OnFpuStackUnderflow(s), v |-> NegNaN]

(* the value FpuPop returns and the state before top moves *)
FpuPopRead(s) ==
  IF FpuGetTag(s, 0) # 3
    THEN [s |-> FpuSetTag(s, 0, 3), v |-> s.fpu_st[FpuSlot(s, 0)]]
    ELSE [s |-> OnFpuStackUnderflow(s), v |-> NegNaN]

FpuPopStep(r) == [s |-> FpuMoveTop(r.s, 2048), v |-> r.v]

FpuPop(s) == FpuPopStep(FpuPopRead(s))

----------------------------------------------------------------------------
(* Fetch/decode loop: one iteration of the for loop of cpu_exec *)

StepIP(s, n) == [s EXCEPT !.ip = W16(@ + n)]

PrefixBytes == {38, 46, 54, 62, 240, 242, 243}

(* prefix_count > 10, tested after the count of fetched bytes is stepped *)
PrefixOver(prefix_count) == prefix_count > 10

(* the byte at CS:IP+k is a prefix byte, looked at without fetching *)
PrefixByteAt(s, t) ==
  ~t.fault /\ cpu_read(s, IF s.protected_mode THEN t.addr
                          ELSE A20Mask(s, t.addr)) \in PrefixBytes

IsPrefixAt(s, k) ==
  PrefixByteAt(s, translate_address_safe(s, s.segregs.cs, W16(s.ip + k)))

(* length of the run of prefix bytes at CS:IP *)
PrefixRunAt(s) ==
  IF \A k \in 0..(MaxPrefix + 1) : IsPrefixAt(s, k) THEN MaxPrefix + 2
  ELSE CHOOSE n \in 0..(MaxPrefix + 1) :
         ~IsPrefixAt(s, n) /\ \A k \in 0..(n - 1) : IsPrefixAt(s, k)

(* cpu->opcode = getmem8(cpu, CS, IP); StepIP(cpu, 1) *)
FetchOpcode(g) == StepIP([g.s EXCEPT !.opcode = g.v], 1)

FetchAt(a) == FetchOpcode(getmem8(a, a.segregs.cs, a.ip))

RECURSIVE PrefixLoop(_, _)

(* the limit test and the switch on the byte fetched *)
PrefixSwitch(b, c) ==
  IF PrefixOver(c) THEN cpu_intcall(Log(b, "pfxlimit", c), 13)
  ELSE IF b.opcode = 46 THEN
    PrefixLoop([b EXCEPT !.useseg = b.segregs.cs, !.segoverride = 1], c)
  ELSE IF b.opcode = 62 THEN
    PrefixLoop([b EXCEPT !.useseg = b.segregs.ds, !.segoverride = 1], c)
  ELSE IF b.opcode = 38 THEN
    PrefixLoop([b EXCEPT !.useseg = b.segregs.es, !.segoverride = 1], c)
  ELSE IF b.opcode = 54 THEN
    PrefixLoop([b EXCEPT !.useseg = b.segregs.ss, !.segoverride = 1], c)
  ELSE IF b.opcode = 240 THEN PrefixLoop(b, c)
  ELSE IF b.opcode = 243 THEN PrefixLoop([b EXCEPT !.reptype = 1], c)
  ELSE IF b.opcode = 242 THEN PrefixLoop([b EXCEPT !.reptype = 2], c)
  ELSE b

PrefixLoop(s, prefix_count) ==
  PrefixSwitch(FetchAt([s EXCEPT !.savecs = s.segregs.cs, !.saveip = s.ip]),
               prefix_count + 1)

(* 0F 05: LOADALL from the block at physical 0x800 *)
LoadCache(s, a) ==
  [limit |-> cpu_readw(s, a + 4), base |-> read_24bit_base(s, a + 1),
   access |-> cpu_read(s, a), valid |-> TRUE]

LoadallBlock(s, addr) ==
  [s EXCEPT
     !.segcache = [es |-> LoadCache(s, addr + 26),
                   cs |-> LoadCache(s, addr + 32),
                   ss |-> LoadCache(s, addr + 38),
                   ds |-> LoadCache(s, addr + 44)],
     !.regs = [di |-> cpu_readw(s, addr + 50),
               si |-> cpu_readw(s, addr + 52),
               bp |-> cpu_readw(s, addr + 54),
               sp |-> cpu_readw(s, addr + 56),
               bx |-> cpu_readw(s, addr + 58),
               dx |-> cpu_readw(s, addr + 60),
               cx |-> cpu_readw(s, addr + 62),
               ax |-> cpu_readw(s, addr + 64)],
     !.ip = cpu_readw(s, addr + 68),
     !.ldtr = cpu_readw(s, addr + 70),
     !.tr = cpu_readw(s, addr + 84),
     !.segregs = [ds |-> cpu_readw(s, addr + 72),
                  ss |-> cpu_readw(s, addr + 74),
                  cs |-> cpu_readw(s, addr + 76),
                  es |-> cpu_readw(s, addr + 78)],
     !.gdtr = [limit |-> cpu_readw(s, addr + 86),
               base |-> read_24bit_base(s, addr + 88)],
     !.idtr = [limit |-> cpu_readw(s, addr + 92),
               base |-> read_24bit_base(s, addr + 94)],
     !.msw = cpu_readw(s, addr + 102),
     !.protected_mode = (cpu_readw(s, addr + 102) % 2 = 1)]

OpLoadall(s) ==
  IF s.protected_mode THEN cpu_intcall(s, 6)
  ELSE decodeflagsword(Log(LoadallBlock(s, 2048), "loadall", 0),
                       cpu_readw(s, 2048 + 66))

(* variant: no rewind, the instruction is left after one transfer *)
RepRewind_Stay(s) == s

(* variant: rewind to the last fetched byte, behind the prefixes *)
RepRewind_SaveIp(s) == [s EXCEPT !.ip = s.saveip]

(* cpu->ip = firstip: back to the first byte of the instruction *)
RepRewind(s) == [s EXCEPT !.ip = s.firstip]

(* putmem8(cpu, ES, DI, getmem8(cpu, useseg, SI)) *)
MovsbStore(g) ==
  Log(putmem8(g.s, g.s.segregs.es, g.s.regs.di, g.v), "movsb", g.v)

(* SI and DI step by one, down when DF is set *)
MovsbStep(w) ==
  [w EXCEPT !.regs.si = W16(@ + (IF w.df # 0 THEN 65535 ELSE 1)),
            !.regs.di = W16(@ + (IF w.df # 0 THEN 65535 ELSE 1))]

(* if (cpu->reptype) CX = CX - 1 *)
MovsbCount(m) ==
  IF m.reptype # 0 THEN [m EXCEPT !.regs.cx = W16(@ + 65535)] ELSE m

(* if (!cpu->reptype) break; cpu->ip = firstip *)
MovsbRepeat(e) == IF e.reptype = 0 THEN e ELSE RepRewind(e)

OpMovsb(s) ==
  IF s.reptype # 0 /\ s.regs.cx = 0 THEN s
  ELSE MovsbRepeat(MovsbCount(MovsbStep(MovsbStore(
         getmem8(s, s.useseg, s.regs.si)))))

(* real-mode IRET: cpu->ip = pop(); cpu->segregs[regcs] = pop();        *)
(* decodeflagsword(cpu, pop())                                          *)
PopFlags(p) == decodeflagsword(p.s, p.v)

IretReal(s) == PopFlags(pop(SetCS(pop(SetIP(pop(s))))))

(* protected-mode IRET: the frame f = <<temp_ip, temp_cs, temp_flags>> *)
IretFinish(l, f) ==
  decodeflagsword([l EXCEPT !.segregs.cs = f[2], !.ip = f[1]], f[3])

IretLoadCS(q, f) == IretFinish(load_descriptor(q, "cs", f[2]), f)

(* temp_sp and temp_ss popped, SS loaded *)
IretOuterSS(p5, temp_sp) ==
  SwitchStack(load_descriptor(p5.s, "ss", p5.v), p5.v, temp_sp)

IretOuterSP(p4) == IretOuterSS(pop(p4.s), p4.v)

IretRing(s, f) ==
  IF f[2] % 4 > s.segregs.cs % 4 THEN IretLoadCS(IretOuterSP(pop(s)), f)
  ELSE IretLoadCS(s, f)

IretFlags(p3, temp_ip, temp_cs) == IretRing(p3.s, <<temp_ip, temp_cs, p3.v>>)

IretCS(p2, temp_ip) == IretFlags(pop(p2.s), temp_ip, p2.v)

IretIP(p1) == IretCS(pop(p1.s), p1.v)

OpIret(s) == IF s.protected_mode THEN IretIP(pop(s)) ELSE IretReal(s)

(* the keyboard controller's ports: commands that queue a scancode, and  *)
(* data bytes for the commands 0x60 and 0xD4 or for the keyboard, are    *)
(* outside the modelled subset                                          *)
KbcCommand(s, value) ==
  IF value \in {32, 170, 192, 208, 224} THEN [s EXCEPT !.unmodelled = TRUE]
  ELSE IF value = 254 THEN cpu_reset([s EXCEPT !.kbc_command = value])
  ELSE [s EXCEPT !.kbc_command = value]

KbcData(s, value) ==
  IF s.kbc_command \in {0, 96, 212} THEN [s EXCEPT !.unmodelled = TRUE]
  ELSE IF s.kbc_command = 209
    THEN [s EXCEPT !.a20_enabled = (Bit(value, 1) = 1), !.kbc_command = 0]
  ELSE [s EXCEPT !.kbc_command = 0]

(* i8042_write as the guest programs reach it: the command latch, the *)
(* A20 gate and the reset                                             *)
KbcPortWrite(s, port, value) ==
  IF port = 100 THEN KbcCommand(s, value) ELSE KbcData(s, value)

port_write(s, portnum, value) ==
  IF portnum \in {32, 33, 160, 161}
    THEN [s EXCEPT !.io = Append(@, <<portnum, value>>)]
  ELSE IF portnum \in {96, 100} THEN KbcPortWrite(s, portnum, value)
  ELSE [s EXCEPT !.unmodelled = TRUE]

(* an immediate byte: getmem8(cpu, CS, IP); StepIP(cpu, 1) *)
ImmediateStep(g) == [s |-> StepIP(g.s, 1), v |-> g.v]

FetchImmediate(s) == ImmediateStep(getmem8(s, s.segregs.cs, s.ip))

(* an immediate word: getmem16(cpu, CS, IP); StepIP(cpu, 2) *)
WordStep(g) == [s |-> StepIP(g.s, 2), v |-> g.v]

FetchWord(s) == WordStep(getmem16(s, s.segregs.cs, s.ip))

(* register numbers of the instruction encoding *)
RegAt == <<"ax", "cx", "dx", "bx", "sp", "bp", "si", "di">>
SegAt == <<"es", "cs", "ss", "ds">>

getreg16(s, regid) == s.regs[RegAt[regid + 1]]

putreg16(s, regid, writeval) == [s EXCEPT !.regs[RegAt[regid + 1]] = writeval]

(* the byte registers AL, CL, DL, BL, AH, CH, DH, BH *)
putreg8(s, regid, writeval) ==
  IF regid < 4
    THEN [s EXCEPT !.regs[RegAt[regid + 1]] = (@ \div 256) * 256 + writeval]
    ELSE [s EXCEPT !.regs[RegAt[regid - 3]] = writeval * 256 + (@ % 256)]

(* a segment register field above 3 names no register: outside the subset *)
putsegreg(s, regid, writeval) ==
  IF regid > 3 THEN [s EXCEPT !.unmodelled = TRUE]
  ELSE [s EXCEPT !.segregs[SegAt[regid + 1]] = writeval]

signext(value) == IF value >= 128 THEN value + 65280 ELSE value

(* the ModR/M byte and its displacement; BP-based forms use SS unless a *)
(* segment override is active                                           *)
ModrmFields(f) ==
  [f.s EXCEPT !.mode = f.v \div 64, !.reg = (f.v \div 8) % 8, !.rm = f.v % 8]

SetDisp(f) == [f.s EXCEPT !.disp16 = f.v]
SetDisp8(f) == [f.s EXCEPT !.disp16 = signext(f.v)]

StackBased(s, rms) ==
  IF s.rm \in rms /\ s.segoverride = 0
    THEN [s EXCEPT !.useseg = s.segregs.ss] ELSE s

ModrmDisp(s) ==
  IF s.mode = 0
    THEN StackBased(IF s.rm = 6 THEN SetDisp(FetchWord(s)) ELSE s, {2, 3})
  ELSE IF s.mode = 1 THEN StackBased(SetDisp8(FetchImmediate(s)), {2, 3, 6})
  ELSE IF s.mode = 2 THEN StackBased(SetDisp(FetchWord(s)), {2, 3, 6})
  ELSE [s EXCEPT !.disp16 = 0]

modregrm(s) == ModrmDisp(ModrmFields(FetchImmediate(s)))

(* the sum of the base and index registers of an rm field *)
EaBase(s, rmval) ==
  IF rmval = 0 THEN s.regs.bx + s.regs.si
  ELSE IF rmval = 1 THEN s.regs.bx + s.regs.di
  ELSE IF rmval = 2 THEN s.regs.bp + s.regs.si
  ELSE IF rmval = 3 THEN s.regs.bp + s.regs.di
  ELSE IF rmval = 4 THEN s.regs.si
  ELSE IF rmval = 5 THEN s.regs.di
  ELSE IF rmval = 6 THEN s.regs.bp
  ELSE s.regs.bx

(* offset = tempea & 0xFFFF *)
EaOffset(s, rmval) ==
  IF s.mode = 0
    THEN W16(IF rmval = 6 THEN s.disp16 ELSE EaBase(s, rmval))
  ELSE IF s.mode = 3 THEN 0
  ELSE W16(EaBase(s, rmval) + s.disp16)

(* the cache getea picks: SS, DS, ES, CS in that order *)
EaCacheFor(s) ==
  IF s.useseg = s.segregs.ss THEN "ss"
  ELSE IF s.useseg = s.segregs.ds THEN "ds"
  ELSE IF s.useseg = s.segregs.es THEN "es"
  ELSE IF s.useseg = s.segregs.cs THEN "cs"
  ELSE "none"

(* variant: an offset beyond the limit of the cache raises interrupt 13 *)
EaProtected_Checked(s, g, offset) ==
  IF g = "none" THEN [s EXCEPT !.ea = 0]
  ELSE IF ~s.segcache[g].valid THEN [s EXCEPT !.ea = 0]
  ELSE IF offset > s.segcache[g].limit
    THEN [cpu_intcall(s, 13) EXCEPT !.ea = 0]
  ELSE [s EXCEPT !.ea = s.segcache[g].base + offset]

(* ea = base + offset of a valid cache, otherwise 0 *)
EaProtected(s, g, offset) ==
  IF g = "none" THEN [s EXCEPT !.ea = 0]
  ELSE IF ~s.segcache[g].valid THEN [s EXCEPT !.ea = 0]
  ELSE [s EXCEPT !.ea = s.segcache[g].base + offset]

EaReal(s, offset) == [s EXCEPT !.ea = A20Mask(s, s.useseg * 16 + offset)]

getea(s, rmval) ==
  IF s.protected_mode
    THEN EaProtected(s, EaCacheFor(s), EaOffset(s, rmval))
    ELSE EaReal(s, EaOffset(s, rmval))

ReadEa16(e) == [s |-> e, v |-> cpu_readw(e, e.ea)]

readrm16(s, rmval) ==
  IF s.mode < 3 THEN ReadEa16(getea(s, rmval))
  ELSE [s |-> s, v |-> getreg16(s, rmval)]

WriteEa16(e, value) == cpu_writew(e, e.ea, value)

writerm16(s, rmval, value) ==
  IF s.mode < 3 THEN WriteEa16(getea(s, rmval), value)
  ELSE putreg16(s, rmval, value)

WriteEa8(e, value) == cpu_write(e, e.ea, value)

writerm8(s, rmval, value) ==
  IF s.mode < 3 THEN WriteEa8(getea(s, rmval), value)
  ELSE putreg8(s, rmval, value)

(* if (cpu->protected_mode) load_descriptor(cpu, seg_reg, selector) *)
LoadIfProtected(s, seg_reg, selector) ==
  IF s.protected_mode THEN load_descriptor(s, seg_reg, selector) ELSE s

(* 07, 17, 1F: POP ES, POP SS, POP DS *)
OpPopSreg(p, seg_reg) ==
  [LoadIfProtected(p.s, seg_reg, p.v) EXCEPT !.segregs[seg_reg] = p.v]

RECURSIVE BitCount(_)
BitCount(x) == IF x = 0 THEN 0 ELSE (x % 2) + BitCount(x \div 2)

(* const uint8_t parity[0x100] *)
ParityTable ==
  << 1, 0, 0, 1, 0, 1, 1, 0, 0, 1, 1, 0, 1, 0, 0, 1, 0, 1, 1, 0, 1, 0, 0, 1, 1, 0, 0, 1, 0, 1, 1, 0,
     0, 1, 1, 0, 1, 0, 0, 1, 1, 0, 0, 1, 0, 1, 1, 0, 1, 0, 0, 1, 0, 1, 1, 0, 0, 1, 1, 0, 1, 0, 0, 1,
     0, 1, 1, 0, 1, 0, 0, 1, 1, 0, 0, 1, 0, 1, 1, 0, 1, 0, 0, 1, 0, 1, 1, 0, 0, 1, 1, 0, 1, 0, 0, 1,
     1, 0, 0, 1, 0, 1, 1, 0, 0, 1, 1, 0, 1, 0, 0, 1, 0, 1, 1, 0, 1, 0, 0, 1, 1, 0, 0, 1, 0, 1, 1, 0,
     0, 1, 1, 0, 1, 0, 0, 1, 1, 0, 0, 1, 0, 1, 1, 0, 1, 0, 0, 1, 0, 1, 1, 0, 0, 1, 1, 0, 1, 0, 0, 1,
     1, 0, 0, 1, 0, 1, 1, 0, 0, 1, 1, 0, 1, 0, 0, 1, 0, 1, 1, 0, 1, 0, 0, 1, 1, 0, 0, 1, 0, 1, 1, 0,
     1, 0, 0, 1, 0, 1, 1, 0, 0, 1, 1, 0, 1, 0, 0, 1, 0, 1, 1, 0, 1, 0, 0, 1, 1, 0, 0, 1, 0, 1, 1, 0,
     0, 1, 1, 0, 1, 0, 0, 1, 1, 0, 0, 1, 0, 1, 1, 0, 1, 0, 0, 1, 0, 1, 1, 0, 0, 1, 1, 0, 1, 0, 0, 1 >>

parity(value) == ParityTable[(value % 256) + 1]

flag_log16(s, value) ==
  [s EXCEPT !.zf = IF value = 0 THEN 1 ELSE 0, !.sf = Bit(value, 15),
            !.pf = parity(value), !.cf = 0, !.of = 0]

(* The arithmetic helpers.  oper1b/oper2b and oper1/oper2 are passed as *)
(* arguments; the result is left in res8 or res16 as in the source.    *)
flag_szp8(s, value) ==
  [s EXCEPT !.zf = IF value = 0 THEN 1 ELSE 0, !.sf = Bit(value, 7),
            !.pf = parity(value)]

flag_szp16(s, value) ==
  [s EXCEPT !.zf = IF value = 0 THEN 1 ELSE 0, !.sf = Bit(value, 15),
            !.pf = parity(BitAnd(value, 255))]

flag_log8(s, value) == [flag_szp8(s, value) EXCEPT !.cf = 0, !.of = 0]

(* OF and AF of an addition, from the operands and the sum *)
AddOverflow(v1, v2, dst, sign) ==
  IF BitAnd(BitAnd(BitXor(dst, v1), BitXor(dst, v2)), sign) = sign
    THEN 1 ELSE 0

AuxCarry(v1, v2, dst) ==
  IF BitAnd(BitXor(BitXor(v1, v2), dst), 16) # 0 THEN 1 ELSE 0

flag_adc8(s, v1, v2, v3) ==
  [flag_szp8(s, W8(v1 + v2 + v3)) EXCEPT
     !.of = AddOverflow(v1, v2, v1 + v2 + v3, 128),
     !.cf = IF BitAnd(v1 + v2 + v3, 65280) # 0 THEN 1 ELSE 0,
     !.af = AuxCarry(v1, v2, v1 + v2 + v3)]

flag_add8(s, v1, v2) ==
  [flag_szp8(s, W8(v1 + v2)) EXCEPT
     !.cf = IF BitAnd(v1 + v2, 65280) # 0 THEN 1 ELSE 0,
     !.of = AddOverflow(v1, v2, v1 + v2, 128),
     !.af = AuxCarry(v1, v2, v1 + v2)]

(* dst = (uint16_t)v1 - (uint16_t)v2, kept in 16 bits *)
SubDst8(v1, v2) == W16(v1 + 65536 - v2)

(* dst = (uint32_t)v1 - (uint32_t)v2, as its low and high 16-bit halves *)
SubDst16(v1, v2) ==
  [lo |-> W16(v1 + 65536 - v2), hi |-> IF v1 < v2 THEN 65535 ELSE 0]

SubOverflow(v1, v2, dst, sign) ==
  IF BitAnd(BitAnd(BitXor(dst, v1), BitXor(v1, v2)), sign) # 0 THEN 1 ELSE 0

flag_sub8(s, v1, v2) ==
  [flag_szp8(s, W8(SubDst8(v1, v2))) EXCEPT
     !.cf = IF BitAnd(SubDst8(v1, v2), 65280) # 0 THEN 1 ELSE 0,
     !.of = SubOverflow(v1, v2, SubDst8(v1, v2), 128),
     !.af = AuxCarry(v1, v2, SubDst8(v1, v2))]

flag_sub16(s, v1, v2) ==
  [flag_szp16(s, SubDst16(v1, v2).lo) EXCEPT
     !.cf = IF SubDst16(v1, v2).hi # 0 THEN 1 ELSE 0,
     !.of = SubOverflow(v1, v2, SubDst16(v1, v2).lo, 32768),
     !.af = AuxCarry(v1, v2, SubDst16(v1, v2).lo)]

(* variant: the sum of source and carry is kept at full width *)
SbbSource_Wide(v2, v3, width) == v2 + v3

(* v2 += v3, in the width of v2 *)
SbbSource(v2, v3, width) == (v2 + v3) % width

(* the statements after v2 += v3 are those of flag_sub8 and flag_sub16 *)
flag_sbb8(s, v1, v2, v3) == flag_sub8(s, v1, SbbSource(v2, v3, 256))

flag_sbb16(s, v1, v2, v3) == flag_sub16(s, v1, SbbSource(v2, v3, 65536))

op_adc8(s, oper1b, oper2b) ==
  [flag_adc8(s, oper1b, oper2b, s.cf) EXCEPT
     !.res8 = W8(oper1b + oper2b + s.cf)]

op_add8(s, oper1b, oper2b) ==
  [flag_add8(s, oper1b, oper2b) EXCEPT !.res8 = W8(oper1b + oper2b)]

op_and8(s, oper1b, oper2b) ==
  [flag_log8(s, BitAnd(oper1b, oper2b)) EXCEPT
     !.res8 = BitAnd(oper1b, oper2b)]

op_or8(s, oper1b, oper2b) ==
  [flag_log8(s, BitOr(oper1b, oper2b)) EXCEPT !.res8 = BitOr(oper1b, oper2b)]

op_xor8(s, oper1b, oper2b) ==
  [flag_log8(s, BitXor(oper1b, oper2b)) EXCEPT
     !.res8 = BitXor(oper1b, oper2b)]

op_sub8(s, oper1b, oper2b) ==
  [flag_sub8(s, oper1b, oper2b) EXCEPT !.res8 = W8(oper1b + 256 - oper2b)]

op_sub16(s, oper1, oper2) ==
  [flag_sub16(s, oper1, oper2) EXCEPT !.res16 = W16(oper1 + 65536 - oper2)]

op_sbb8(s, oper1b, oper2b) ==
  [flag_sbb8(s, oper1b, oper2b, s.cf) EXCEPT
     !.res8 = W8(oper1b + 512 - (oper2b + s.cf))]

op_sbb16(s, oper1, oper2) ==
  [flag_sbb16(s, oper1, oper2, s.cf) EXCEPT
     !.res16 = W16(oper1 + 131072 - (oper2 + s.cf))]

(* FE /0 and FE /1: INC and DEC Eb keep the carry flag *)
OpIncEb(s, oper1b) ==
  [flag_add8(s, oper1b, 1) EXCEPT !.cf = s.cf, !.res8 = W8(oper1b + 1)]

OpDecEb(s, oper1b) ==
  [flag_sub8(s, oper1b, 1) EXCEPT !.cf = s.cf, !.res8 = W8(oper1b + 255)]

(* op_grp3_8, case 3: NEG *)
OpNegEb(s, oper1b) ==
  [flag_sub8(s, 0, oper1b) EXCEPT
     !.res8 = W8(256 - oper1b),
     !.cf = IF W8(256 - oper1b) = 0 THEN 0 ELSE 1]

(* variant: the flags are taken from the low byte of the product *)
MulFlagByte_Product(s, oper1b) == Lo(s.regs.ax)

(* the byte MUL hands to flag_szp8, after AX has been written *)
MulFlagByte(s, oper1b) == oper1b

MulCarry(s) ==
  [s EXCEPT !.cf = IF Hi(s.regs.ax) # 0 THEN 1 ELSE 0,
            !.of = IF Hi(s.regs.ax) # 0 THEN 1 ELSE 0]

MulFlags(s, oper1b) == MulCarry(flag_szp8(s, MulFlagByte(s, oper1b)))

(* op_grp3_8, case 4: MUL *)
OpMulEb(s, oper1b) ==
  MulFlags([s EXCEPT !.regs.ax = W16(oper1b * Lo(s.regs.ax))], oper1b)

(* op_grp2_8, cases 4 to 7: c is [cf, s], the carry and the shifted value *)
RECURSIVE ShlLoop(_, _)
ShlLoop(c, cnt) ==
  IF cnt = 0 THEN c
  ELSE ShlLoop([cf |-> Bit(c.s, 7), s |-> BitAnd(c.s * 2, 255)], cnt - 1)

RECURSIVE ShrLoop(_, _)
ShrLoop(c, cnt) ==
  IF cnt = 0 THEN c
  ELSE ShrLoop([cf |-> c.s % 2, s |-> c.s \div 2], cnt - 1)

RECURSIVE SarLoop(_, _)
SarLoop(c, cnt) ==
  IF cnt = 0 THEN c
  ELSE SarLoop([cf |-> c.s % 2,
                s |-> BitOr(c.s \div 2, BitAnd(c.s, 128))], cnt - 1)

ShlDone(s, c, cnt) ==
  [s |-> [flag_szp8(s, c.s % 256) EXCEPT
            !.cf = c.cf,
            !.of = IF cnt = 1 /\ c.cf = c.s \div 128 THEN 0 ELSE 1],
   v |-> BitAnd(c.s, 255)]

ShrDone(s, c, of) ==
  [s |-> [flag_szp8(s, c.s % 256) EXCEPT !.cf = c.cf, !.of = of],
   v |-> BitAnd(c.s, 255)]

ShiftBy(s, oper1b, reg, cnt) ==
  IF reg \in {4, 6}
    THEN ShlDone(s, ShlLoop([cf |-> s.cf, s |-> oper1b], cnt), cnt)
  ELSE IF reg = 5
    THEN ShrDone(s, ShrLoop([cf |-> s.cf, s |-> oper1b], cnt),
                 IF cnt = 1 /\ BitAnd(oper1b, 128) # 0 THEN 1 ELSE 0)
  ELSE ShrDone(s, SarLoop([cf |-> s.cf, s |-> oper1b], cnt), 0)

(* the shifts of op_grp2_8; the rotates (reg 0 to 3) are left out *)
op_grp2_8(s, oper1b, reg, cnt) == ShiftBy(s, oper1b, reg, BitAnd(cnt, 31))

SetAH(s, value) == [s EXCEPT !.regs.ax = W8(value) * 256 + Lo(@)]

SetAL(s, value) == [s EXCEPT !.regs.ax = Hi(@) * 256 + W8(value)]

op_div8(s, valdiv, divisor) ==
  IF divisor = 0 THEN cpu_intcall(s, 0)
  ELSE IF valdiv \div divisor > 255 THEN cpu_intcall(s, 0)
  ELSE SetAL(SetAH(s, valdiv % divisor), valdiv \div divisor)

(* variant: the divisor is sign-extended to the width of the dividend *)
IdivDivisor_Signed(divisor) == signext(divisor)

(* s2 = divisor: a uint8_t assigned to a uint16_t *)
IdivDivisor(divisor) == divisor

(* variant: the quotient is compared with the range of a signed byte *)
IdivOverflow_Signed(d1, sign) == d1 > 127 + sign

(* if (d1 & 0xFF00) *)
IdivOverflow(d1, sign) == BitAnd(d1, 65280) # 0

(* (s < 0x8000) ? s : ((~s + 1) & 0xffff) *)
IdivAbs(x) == IF x < 32768 THEN x ELSE W16(65536 - x)

IdivStore(s, d1, d2, sign) ==
  IF sign = 1
    THEN SetAL(SetAH(s, W8(65536 - d2)), W8(65536 - d1))
    ELSE SetAL(SetAH(s, d2), d1)

IdivQuotient(s, s1, s2, sign) ==
  IF IdivOverflow(s1 \div s2, sign) THEN cpu_intcall(s, 0)
  ELSE IdivStore(s, s1 \div s2, s1 % s2, sign)

IdivSigned(s, s1, s2) ==
  IdivQuotient(s, IdivAbs(s1), IdivAbs(s2), Bit(BitXor(s1, s2), 15))

op_idiv8(s, valdiv, divisor) ==
  IF divisor = 0 THEN cpu_intcall(s, 0)
  ELSE IdivSigned(s, valdiv, IdivDivisor(divisor))

(* 31: XOR Ev, Gv *)
Xor16(r) == [s |-> r.s, v |-> BitXor(r.v, getreg16(r.s, r.s.reg))]

XorStore(x) == writerm16(flag_log16(x.s, x.v), x.s.rm, x.v)

OpXorEvGv(m) == XorStore(Xor16(readrm16(m, m.rm)))

(* 8E: MOV Sw, Ew *)
MovSreg(r) ==
  IF r.s.reg > 3 THEN [r.s EXCEPT !.unmodelled = TRUE]
  ELSE putsegreg(LoadIfProtected(r.s, SegAt[r.s.reg + 1], r.v), r.s.reg, r.v)

OpMovSwEw(m) == MovSreg(readrm16(m, m.rm))

(* B8..BF: MOV r16, Iw *)
OpMovRegIw(f, regid) == putreg16(f.s, regid, f.v)

(* C6: MOV Eb, Ib *)
MovEbIbStore(g) == StepIP(writerm8(g.s, g.s.rm, g.v), 1)

OpMovEbIb(m) == MovEbIbStore(getmem8(m, m.segregs.cs, m.ip))

(* getea(cpu, cpu->rm) *)
EaOf(m) == getea(m, m.rm)

(* C4, C5: LES and LDS take the offset and the selector from memory *)
OpLoadFar(e, seg_reg) ==
  [putreg16(e, e.reg, cpu_readw(e, e.ea)) EXCEPT
     !.segregs[seg_reg] = cpu_readw(e, e.ea + 2)]

(* CB: RETF *)
OpRetf(s) == SetCS(pop(SetIP(pop(s))))

(* CA: RETF Iw *)
RetfRelease(g) == [OpRetf(g.s) EXCEPT !.regs.sp = W16(@ + g.v)]

OpRetfIw(s) == RetfRelease(getmem16(s, s.segregs.cs, s.ip))

(* variant: the table address is formed like every real-mode address *)
XlatAddress_Wrapped(s) ==
  A20Mask(s, s.useseg * 16 + W16(s.regs.bx + Lo(s.regs.ax)))

(* D7: XLAT reads the byte at useseg * 16 + BX + AL *)
XlatAddress(s) == s.useseg * 16 + s.regs.bx + Lo(s.regs.ax)

XlatRead(s, addr) ==
  [Log(s, "xlat", addr) EXCEPT
     !.regs.ax = (@ \div 256) * 256 + cpu_read(s, addr)]

OpXlat(s) == XlatRead(s, XlatAddress(s))

(* variant: the descriptor is checked before CS changes *)
FarTarget_LoadFirst(s, oper1, oper2) ==
  [LoadIfProtected(s, "cs", oper2) EXCEPT !.ip = oper1, !.segregs.cs = oper2]

(* cpu->ip = oper1; cpu->segregs[regcs] = oper2; then the descriptor *)
FarTarget(s, oper1, oper2) ==
  LoadIfProtected([s EXCEPT !.ip = oper1, !.segregs.cs = oper2], "cs", oper2)

(* EA: JMP Ap *)
JmpSecond(f) == [s |-> f.s, v |-> f.v,
                 w |-> getmem16(f.s, f.s.segregs.cs, f.s.ip)]

JmpTarget(j) == FarTarget(j.w.s, j.v, j.w.v)

OpJmpAp(s) == JmpTarget(JmpSecond(FetchWord(s)))

(* 9A: CALL Ap *)
CallSecond(f) == [v |-> f.v, w |-> FetchWord(f.s)]

CallTarget(j) == FarTarget(PushIP(PushCS(j.w.s)), j.v, j.w.v)

OpCallAp(s) == CallTarget(CallSecond(FetchWord(s)))

(* 0F 00 /2: LLDT *)
OpLldt(r) == load_ldtr([r.s EXCEPT !.ldtr = r.v], r.v)

(* 0F 00 /3: LTR *)
LtrLoad(r) == load_tr([r.s EXCEPT !.tr = r.v], r.v)

OpLtr(m) ==
  IF m.segregs.cs % 4 # 0 THEN cpu_intcall(m, 13)
  ELSE LtrLoad(readrm16(m, m.rm))

(* 0F 00: group 6; VERR and VERW are outside the modelled subset *)
Group6(m) ==
  IF ~m.protected_mode THEN cpu_intcall(m, 6)
  ELSE IF m.reg = 0 THEN writerm16(m, m.rm, m.ldtr)
  ELSE IF m.reg = 1 THEN writerm16(m, m.rm, m.tr)
  ELSE IF m.reg = 2 THEN OpLldt(readrm16(m, m.rm))
  ELSE IF m.reg = 3 THEN OpLtr(m)
  ELSE IF m.reg \in {4, 5} THEN [m EXCEPT !.unmodelled = TRUE]
  ELSE cpu_intcall(m, 6)

(* 0F 01 /0, /1: SGDT and SIDT *)
StoreTable(e, d) ==
  cpu_write(cpu_write(cpu_write(cpu_writew(e, e.ea, d.limit),
                                e.ea + 2, d.base % 256),
                      e.ea + 3, (d.base \div 256) % 256),
            e.ea + 4, (d.base \div 65536) % 256)

(* 0F 01 /2, /3: LGDT and LIDT *)
TableAt(e) == [limit |-> cpu_readw(e, e.ea), base |-> read_24bit_base(e, e.ea + 2)]

OpLgdt(e) == [e EXCEPT !.gdtr = TableAt(e)]

OpLidt(e) == [e EXCEPT !.idtr = TableAt(e)]

(* variant: the switch to protected mode leaves the caches as they are *)
LmswCaches_Keep(s) ==
  IF ~s.protected_mode /\ s.msw % 2 = 1
    THEN [s EXCEPT !.protected_mode = TRUE] ELSE s

(* variant: the operand replaces the low four bits, PE included *)
LmswValue_Plain(s, oper1) == BitAnd(s.msw, 65520) + BitAnd(oper1, 15)

(* 0F 01 /6: LMSW; the PE bit cannot be cleared, and on the switch to *)
(* protected mode the four caches are made from the selectors        *)
LmswValue(s, oper1) ==
  BitAnd(s.msw, 65520) + BitAnd(BitOr(oper1, s.msw % 2), 15)

LmswCaches(s) ==
  IF ~s.protected_mode /\ s.msw % 2 = 1
    THEN [s EXCEPT !.protected_mode = TRUE,
                   !.segcache = [g \in SegNames |->
                                   [base |-> s.segregs[g] * 16, limit |-> 65535,
                                    access |-> 147, valid |-> TRUE]]]
    ELSE s

OpLmsw(r) == LmswCaches([r.s EXCEPT !.msw = LmswValue(r.s, r.v)])

(* 0F 01: group 7 *)
Group7(m) ==
  IF m.reg = 0 THEN StoreTable(EaOf(m), m.gdtr)
  ELSE IF m.reg = 1 THEN StoreTable(EaOf(m), m.idtr)
  ELSE IF m.reg = 2 THEN OpLgdt(EaOf(m))
  ELSE IF m.reg = 3 THEN OpLidt(EaOf(m))
  ELSE IF m.reg = 4 THEN writerm16(m, m.rm, m.msw)
  ELSE IF m.reg = 6 THEN OpLmsw(readrm16(m, m.rm))
  ELSE cpu_intcall(m, 6)

(* 0F 06: CLTS *)
OpClts(s) == [s EXCEPT !.msw = BitAnd(@, 65527)]

(* 0F: the second opcode byte replaces cpu->opcode *)
Dispatch0F(f) ==
  IF f.v = 0 THEN Group6(modregrm([f.s EXCEPT !.opcode = f.v]))
  ELSE IF f.v = 1 THEN Group7(modregrm([f.s EXCEPT !.opcode = f.v]))
  ELSE IF f.v = 5 THEN OpLoadall([f.s EXCEPT !.opcode = f.v])
  ELSE IF f.v = 6 THEN OpClts([f.s EXCEPT !.opcode = f.v])
  ELSE [f.s EXCEPT !.unmodelled = TRUE]

(* B0: MOV AL, Ib *)
OpMovAL(f) == [f.s EXCEPT !.regs.ax = (@ \div 256) * 256 + f.v]

(* CD: INT Ib *)
OpIntIb(f) == cpu_intcall(f.s, f.v)

(* E6: OUT Ib, AL *)
OpOutIbAL(f) == port_write(f.s, f.v, Lo(f.s.regs.ax))

(* A6 CMPSB and AE SCASB.  c is [s, a, b]: the machine and the two *)
(* bytes compared (oper1b, oper2b).                                *)
CmpsRead(g) ==
  [s |-> getmem8(g.s, g.s.segregs.es, g.s.regs.di).s,
   a |-> g.v,
   b |-> getmem8(g.s, g.s.segregs.es, g.s.regs.di).v]

CmpsCompare(c) == Log(flag_sub8(MovsbStep(c.s), c.a, c.b), "scan", c.b)

ScasStep(w) ==
  [w EXCEPT !.regs.di = W16(@ + (IF w.df # 0 THEN 65535 ELSE 1))]

ScasCompare(g) ==
  Log(ScasStep(flag_sub8(g.s, Lo(g.s.regs.ax), g.v)), "scan", g.v)

(* variant: the zero flag does not end the repetition *)
ScanEnd_Ignore(e) == MovsbRepeat(e)

(* the two tests of reptype and zf, then the rewind of the repeat *)
ScanEnd(e) ==
  IF e.reptype = 1 /\ e.zf = 0 THEN e
  ELSE IF e.reptype = 2 /\ e.zf = 1 THEN e
  ELSE MovsbRepeat(e)

OpCmpsb(s) ==
  IF s.reptype # 0 /\ s.regs.cx = 0 THEN s
  ELSE ScanEnd(MovsbCount(CmpsCompare(CmpsRead(
         getmem8(s, s.useseg, s.regs.si)))))

OpScasb(s) ==
  IF s.reptype # 0 /\ s.regs.cx = 0 THEN s
  ELSE ScanEnd(MovsbCount(ScasCompare(
         getmem8(s, s.segregs.es, s.regs.di))))

(* variant: the handler's entry point is kept *)
EscRewind_Keep(s) == s

(* cpu->ip = cpu->saveip, after cpu_intcall has returned *)
EscRewind(s) == [s EXCEPT !.ip = s.saveip]

(* D8..DF: escape to the FPU; with MSW.TS set interrupt 7 is raised and *)
(* OpFpu is not called                                                  *)
OpEsc(s) ==
  IF BitAnd(s.msw, 8) # 0
    THEN EscRewind(cpu_intcall(Log(s, "esc", s.opcode), 7))
    ELSE [s EXCEPT !.unmodelled = TRUE]

(* the main switch (cpu->opcode) *)
DispatchOpcode(s, op) ==
  IF op = 15 THEN Dispatch0F(FetchImmediate(s))
  ELSE IF op = 7 THEN OpPopSreg(pop(s), "es")
  ELSE IF op = 23 THEN OpPopSreg(pop(s), "ss")
  ELSE IF op = 31 THEN OpPopSreg(pop(s), "ds")
  ELSE IF op = 49 THEN OpXorEvGv(modregrm(s))
  ELSE IF op = 142 THEN OpMovSwEw(modregrm(s))
  ELSE IF op = 144 THEN s
  ELSE IF op = 154 THEN OpCallAp(s)
  ELSE IF op \in 184..191 THEN OpMovRegIw(FetchWord(s), op - 184)
  ELSE IF op = 196 THEN OpLoadFar(EaOf(modregrm(s)), "es")
  ELSE IF op = 197 THEN OpLoadFar(EaOf(modregrm(s)), "ds")
  ELSE IF op = 198 THEN OpMovEbIb(modregrm(s))
  ELSE IF op = 202 THEN OpRetfIw(s)
  ELSE IF op = 203 THEN OpRetf(s)
  ELSE IF op = 215 THEN OpXlat(s)
  ELSE IF op \in 216..223 THEN OpEsc(s)
  ELSE IF op = 234 THEN OpJmpAp(s)
  ELSE IF op = 164 THEN OpMovsb(s)
  ELSE IF op = 166 THEN OpCmpsb(s)
  ELSE IF op = 174 THEN OpScasb(s)
  ELSE IF op = 176 THEN OpMovAL(FetchImmediate(s))
  ELSE IF op = 204 THEN cpu_intcall(s, 3)
  ELSE IF op = 205 THEN OpIntIb(FetchImmediate(s))
  ELSE IF op = 207 THEN OpIret(s)
  ELSE IF op = 230 THEN OpOutIbAL(FetchImmediate(s))
  ELSE IF op = 244 THEN [s EXCEPT !.hltstate = TRUE]
  ELSE IF op = 250 THEN [s EXCEPT !.ifl = 0]
  ELSE IF op = 251 THEN [s EXCEPT !.ifl = 1]
  ELSE IF op \in PrefixBytes \cup {100, 101, 102, 103, 241}
    THEN cpu_intcall(s, 6)
  ELSE [s EXCEPT !.unmodelled = TRUE]

Dispatch(s0) == DispatchOpcode(Log(s0, "dispatch", s0.opcode), s0.opcode)

(* variant: the trap flag itself is tested, not the latch *)
TrapDue_Immediate(s) == s.tf # 0

(* if (cpu->trap_toggle) at the top of the iteration *)
TrapDue(s) == s.trap_toggle

(* variant: a halted CPU goes on fetching *)
SkipExecution_Never(s) == FALSE

(* if (cpu->hltstate) goto skipexecution *)
SkipExecution(s) == s.hltstate

(* if (cpu->trap_toggle) cpu_intcall(cpu, 1) *)
TrapCheck(s) ==
  IF TrapDue(s) THEN cpu_intcall(Log(s, "trap", 1), 1) ELSE s

(* the trap flag is copied into the latch for the next iteration *)
CopyTrapFlag(s) == [Log(s, "tf", s.tf) EXCEPT !.trap_toggle = (s.tf # 0)]

(* the per-instruction state set before the prefix loop *)
StartInstruction(s) ==
  [Log(s, "pfxrun", PrefixRunAt(s)) EXCEPT
     !.reptype = 0, !.segoverride = 0,
     !.useseg = s.segregs.ds, !.firstip = s.ip]

ExecInstruction(s) ==
  IF SkipExecution(s) THEN s
  ELSE Dispatch(PrefixLoop(StartInstruction(s), 0))

cpu_exec(s0) == ExecInstruction(CopyTrapFlag(TrapCheck(s0)))

(* variant: the trap-toggle latch is not consulted *)
InterruptWanted_NoTrap(s, m) == s.ifl # 0 /\ Pending(m) # 0

(* the condition of cpu_interruptCheck *)
InterruptWanted(s, m) == ~s.trap_toggle /\ s.ifl # 0 /\ Pending(m) # 0

(* cpu->hltstate = 0; cpu_intcall(cpu, i8259_nextintr(i8259)) *)
AcceptInterrupt(s, r) ==
  [c |-> cpu_intcall([Log(s, "accept", IF s.hltstate THEN 1 ELSE 0)
                        EXCEPT !.hltstate = FALSE], r.v),
   m |-> r.m, s |-> r.s, taken |-> TRUE]

cpu_interruptCheck(s, m, sl) ==
  IF InterruptWanted(s, m)
    THEN AcceptInterrupt(s, i8259_nextintr(m, sl))
    ELSE [c |-> s, m |-> m, s |-> sl, taken |-> FALSE]

cpu_registerIntCallback(s, interrupt) ==
  [s EXCEPT !.int_callback = @ \cup {interrupt}]

i8259_doirq(m, sl, is_slave, irqnum) ==
  IF is_slave THEN [m |-> RaiseLine(m, 2), s |-> RaiseLine(sl, irqnum)]
              ELSE [m |-> RaiseLine(m, irqnum), s |-> sl]

----------------------------------------------------------------------------
(* Memory images: the guest programs the machine is started with.  Every   *)
(* image boots at F000:FFF0 with LOADALL (0F 05), which takes the register *)
(* file, the flags, the segment state and the MSW from the block at 0x800. *)

Bytes(addr, bs) == { <<addr + i - 1, bs[i]>> : i \in 1..Len(bs) }
Word(addr, w) == Bytes(addr, <<Lo(w), Hi(w)>>)
Base24(addr, b) == Bytes(addr, <<b % 256, (b \div 256) % 256, (b \div 65536) % 256>>)
(* zero bytes are left out of an image: unwritten RAM reads as zero *)
MemOf(pairs) == [a \in { p[1] : p \in { q \in pairs : q[2] # 0 } } |->
                   (CHOOSE p \in pairs : p[1] = a)[2]]

BootCode == Bytes(1048560, <<15, 5>>)

CacheImage(a, c) == Bytes(a, <<c.access>>) \cup Base24(a + 1, c.base) \cup Word(a + 4, c.limit)

LoadallImage(f) ==
  CacheImage(2048 + 26, f.ces) \cup CacheImage(2048 + 32, f.ccs)
    \cup CacheImage(2048 + 38, f.css) \cup CacheImage(2048 + 44, f.cds)
    \cup Word(2048 + 50, f.di) \cup Word(2048 + 52, f.si)
    \cup Word(2048 + 56, f.sp) \cup Word(2048 + 62, f.cx)
    \cup Word(2048 + 64, f.ax) \cup Word(2048 + 66, f.flags)
    \cup Word(2048 + 68, f.ip) \cup Word(2048 + 72, f.ds)
    \cup Word(2048 + 74, f.ss) \cup Word(2048 + 76, f.cs)
    \cup Word(2048 + 78, f.es) \cup Word(2048 + 86, f.gdtlimit)
    \cup Base24(2048 + 88, f.gdtbase) \cup Word(2048 + 92, f.idtlimit)
    \cup Base24(2048 + 94, f.idtbase) \cup Word(2048 + 102, f.msw)

RealCache(sel) == [base |-> sel * 16, limit |-> 65535, access |-> 147]

(* Real-mode layout: handlers at 0100:0000 (IRET) and 0100:0010 (HLT),  *)
(* program at 0200:0000, stack at 0300:0100, source data at 0400:0010,  *)
(* destination at 0500:0020.                                            *)
RealRegs(flags, ax, cx) ==
  [cs |-> 512, ss |-> 768, ds |-> 1024, es |-> 1280,
   ccs |-> RealCache(512), css |-> RealCache(768),
   cds |-> RealCache(1024), ces |-> RealCache(1280),
   ip |-> 0, sp |-> 256, si |-> 16, di |-> 32, ax |-> ax, cx |-> cx,
   flags |-> flags, gdtbase |-> 0, gdtlimit |-> 65535,
   idtbase |-> 0, idtlimit |-> 1023, msw |-> 65520]

HaltVectors == {6, 13}

RealVectors ==
  UNION { Word(4 * v, IF v \in HaltVectors THEN 16 ELSE 0) \cup Word(4 * v + 2, 256)
          : v \in 0..21 }

RealImage(flags, ax, cx, prog) ==
  MemOf(BootCode \cup LoadallImage(RealRegs(flags, ax, cx)) \cup RealVectors
          \cup Bytes(4096, <<207>>) \cup Bytes(4112, <<244>>)
          \cup Bytes(8192, prog)
          \cup Bytes(16399, <<163, 161, 162>>)
          \cup Base24(20506, 16400) \cup Base24(20514, 20512))

FlagIF == 512
FlagTF == 256
FlagDF == 1024

PrefixCycle == <<62, 240, 243>>
PrefixRunOf(n) == [i \in 1..n |-> PrefixCycle[(i % 3) + 1]]

(* prefixes before MOVSB, with the direction flag *)
RepCases == { <<0, <<243>>>>, <<1, <<243>>>>, <<0, <<242>>>>,
              <<0, <<46, 243>>>>, <<0, <<>>>> }

RepImages ==
  { RealImage(FlagIF + c[1] * FlagDF + 2, 0, n, c[2] \o <<164, 244>>)
      : n \in 0..MaxCount, c \in RepCases }

PrefixImages ==
  { RealImage(2, 0, 0, PrefixRunOf(n) \o <<144, 244>>) : n \in 0..MaxPrefix }

(* LOADALL sets TF, or IRET pops a flags word with TF from a prepared stack *)
TrapImages ==
  { RealImage(FlagTF + i * FlagIF + 2, 0, 0, <<144, 144, 244>>) : i \in {0, 1} }
  \cup
  { [a \in DOMAIN RealImage(2, 0, 0, <<207, 241, 144, 250, 244>>)
        \cup {12544 + k : k \in 0..5} |->
       IF a = 12544 THEN 2
       ELSE IF a = 12545 THEN 0
       ELSE IF a = 12546 THEN 0
       ELSE IF a = 12547 THEN 2
       ELSE IF a = 12548 THEN 2
       ELSE IF a = 12549 THEN 1 + 2 * i
       ELSE RealImage(2, 0, 0, <<207, 241, 144, 250, 244>>)[a]] : i \in {0, 1} }

HaltImages ==
  { RealImage(t * FlagTF + 2, 0, 0, <<251, 244, 144, 244>>) : t \in {0, 1} }

(* INT n with AH; INT 15h is tried with the two intercepted functions *)
IntCases == { <<3, 0>>, <<13, 0>>, <<21, 0>>, <<21, 135>>, <<21, 136>> }

IntImages ==
  { RealImage(FlagIF + 2, c[2] * 256, 1, <<205, c[1], 244>>) : c \in IntCases }
  \cup { RealImage(FlagIF + 2, 0, 0, <<204, 244>>) }

PicImages ==
  { RealImage(2, 0, 0, <<176, 19, 230, 32, 176, 8, 230, 33,
                         176, mask, 230, 33, 251, 244>>) : mask \in {0, 1, 3} }

(* Protected-mode layout: GDT at 0x6000, IDT at 0x7000.  Selector 0x08 is *)
(* the program's code segment (base 0x2000), 0x10 the stack (base 0x3000), *)
(* 0x18 and 0x20 data, 0x28 the code segment of the tested handler         *)
(* (base 0x1000).                                                          *)
Descriptor(a, base, limit, access) ==
  Word(a, limit) \cup Base24(a + 2, base) \cup Bytes(a + 5, <<access>>)

Gate(a, off, sel, access) ==
  Word(a, off) \cup Word(a + 2, sel) \cup Bytes(a + 5, <<access>>)

ProtRegs(sslimit, idtlimit) ==
  [cs |-> 8, ss |-> 16, ds |-> 24, es |-> 32,
   ccs |-> [base |-> 8192, limit |-> 65535, access |-> 155],
   css |-> [base |-> 12288, limit |-> sslimit, access |-> 147],
   cds |-> [base |-> 16384, limit |-> 65535, access |-> 147],
   ces |-> [base |-> 20480, limit |-> 65535, access |-> 147],
   ip |-> 0, sp |-> 256, si |-> 16, di |-> 32, ax |-> 0, cx |-> 0,
   flags |-> 2, gdtbase |-> 24576, gdtlimit |-> 47,
   idtbase |-> 28672, idtlimit |-> idtlimit, msw |-> 65521]

ProtVectors == {1, 3, 6, 8, 9, 11, 13}

ProtImage(v, handlerAccess, gateAccess, sslimit, idtlimit) ==
  MemOf(BootCode \cup LoadallImage(ProtRegs(sslimit, idtlimit))
          \cup Descriptor(24576 + 8, 8192, 65535, 155)
          \cup Descriptor(24576 + 16, 12288, sslimit, 147)
          \cup Descriptor(24576 + 24, 16384, 65535, 147)
          \cup Descriptor(24576 + 32, 20480, 65535, 147)
          \cup Descriptor(24576 + 40, 4096, 65535, handlerAccess)
          \cup UNION { IF w = v THEN Gate(28672 + 8 * w, 16, 40, gateAccess)
                                ELSE Gate(28672 + 8 * w, 256, 8, 134)
                       : w \in ProtVectors }
          \cup Bytes(4112, <<244>>) \cup Bytes(8448, <<244>>)
          \cup Bytes(8192, <<205, v, 244>>))

(* handler segment access, gate access, stack limit, IDT limit: the good *)
(* configuration and each single defect                                  *)
ProtCases == { <<155, 134, 65535, 111>>, <<27, 134, 65535, 111>>,
               <<155, 6, 65535, 111>>, <<155, 134, 127, 111>>,
               <<155, 134, 65535, 71>> }

ProtImages ==
  { ProtImage(v, c[1], c[2], c[3], c[4]) : v \in {3, 9, 13}, c \in ProtCases }

(* an image with some bytes replaced or added *)
Patch(image, pairs) ==
  [a \in DOMAIN image \cup { p[1] : p \in pairs } |->
     IF \E p \in pairs : p[1] = a
       THEN (CHOOSE p \in pairs : p[1] = a)[2] ELSE image[a]]

(* The protected-mode layout with a larger GDT (limit 0x5F): 0x30 a TSS at *)
(* 0x5800 whose ring-0 stack is 0010:0080, 0x38 a ring-3 code segment      *)
(* (base 0x2200), 0x40 a ring-3 data segment (base 0x3800), 0x48 an LDT    *)
(* descriptor, 0x50 a data segment of 256 bytes (base 0x4800), 0x58 the    *)
(* same segment marked not present.  The ring-0 stack holds the words      *)
(* 0010h, 0028h, 0002h at 0010:0100, and 0018:0000 holds the far pointer   *)
(* 0020:1234.                                                              *)
WideGdt ==
  Descriptor(24576 + 48, 22528, 43, 129)
    \cup Descriptor(24576 + 56, 8704, 65535, 251)
    \cup Descriptor(24576 + 64, 14336, 65535, 243)
    \cup Descriptor(24576 + 72, 26624, 15, 130)
    \cup Descriptor(24576 + 80, 18432, 255, 147)
    \cup Descriptor(24576 + 88, 18432, 255, 19)
    \cup Word(2048 + 86, 95)
    \cup Word(22528 + 2, 128) \cup Word(22528 + 4, 16)
    \cup Word(12544, 16) \cup Word(12546, 40) \cup Word(12548, 2)
    \cup Word(16384, 4660) \cup Word(16386, 32)
    \cup Bytes(8208, <<244>>) \cup Bytes(8720, <<244>>)

ProtProgram(prog, extra) ==
  Patch(ProtImage(3, 155, 134, 65535, 111),
        WideGdt \cup Bytes(8192, prog) \cup extra)

(* ring 0 loads the task register and jumps to the ring-3 code segment, *)
(* which sets up its stack and executes INT 3                           *)
RingImages ==
  { ProtProgram(<<184, 48, 0, 15, 0, 216, 234, 0, 0, 59, 0>>,
                Bytes(8704, <<184, 67, 0, 142, 208, 188, 0, 1, 204, 244>>)) }

(* segment-register loads at ring 0: MOV DS, MOV SS, JMP far, CALL far, *)
(* POP DS, RETF, IRET, LDS                                              *)
LoadSelectors == {0, 8, 16, 19, 24, 27, 48, 67, 88, 96}

LoadImages ==
  { ProtProgram(<<184, Lo(sel), Hi(sel), 142, 216, 244>>, {})
      : sel \in LoadSelectors }
  \cup { ProtProgram(<<184, Lo(sel), Hi(sel), 142, 208, 244>>, {})
           : sel \in {0, 16, 19, 24} }
  \cup { ProtProgram(<<op, 16, 0, Lo(sel), Hi(sel)>>, {})
           : op \in {154, 234}, sel \in {24, 40, 56, 59} }
  \cup { ProtProgram(<<op, 244>>, {}) : op \in {31, 203, 207} }
  \cup { ProtProgram(<<197, 6, 0, 0, 244>>, {}) }

(* LLDT and LTR at ring 0 *)
TableImages ==
  { ProtProgram(<<184, Lo(sel), Hi(sel), 15, 0, modrm, 244>>, {})
      : sel \in {24, 48, 72, 96}, modrm \in {208, 216} }

(* the same started in ring 3: CS = 3Bh, SS = 43h *)
Ring3Start ==
  Word(2048 + 76, 59) \cup CacheImage(2048 + 32, [access |-> 251, base |-> 8704, limit |-> 65535])
    \cup Word(2048 + 74, 67) \cup CacheImage(2048 + 38, [access |-> 243, base |-> 14336, limit |-> 65535])

Ring3Images ==
  { ProtProgram(<<>>, Ring3Start
                  \cup Bytes(8704, <<184, 72, 0, 15, 0, modrm, 244>>))
      : modrm \in {208, 216} }

(* a store and a MOVSB through DS = 50h, whose limit is 0xFF *)
LimitImages ==
  { ProtProgram(<<184, 80, 0, 142, 216, 198, 6, Lo(c[1]), Hi(c[1]), 90,
                  190, Lo(c[2]), Hi(c[2]), 164, 244>>, {})
      : c \in { <<16, 16>>, <<512, 16>>, <<16, 512>> } }

(* The boot-sector program pm286.asm, loaded at 0000:7C00: CLI; XOR AX,AX; *)
(* MOV DS/ES/SS,AX; MOV SP,7C00h; LGDT; MOV AX,1; LMSW AX; JMP 08h:7C1Ch;  *)
(* MOV AX,10h; MOV DS/ES/SS,AX; MOV SP,9000h; MOV AX,18h; MOV ES,AX; six   *)
(* byte stores through ES; CLI; HLT; JMP $.  Its GDT follows at 7C55h and  *)
(* the GDT pseudo-descriptor at 7C75h.                                     *)
Pm286Code ==
  <<250, 49, 192, 142, 216, 142, 192, 142, 208, 188, 0, 124,
    15, 1, 22, 117, 124, 184, 1, 0, 15, 1, 240, 234,
    28, 124, 8, 0, 184, 16, 0, 142, 216, 142, 192, 142,
    208, 188, 0, 144, 184, 24, 0, 142, 192, 38, 198, 6,
    0, 0, 65, 38, 198, 6, 1, 0, 4, 38, 198, 6,
    2, 0, 66, 38, 198, 6, 3, 0, 2, 38, 198, 6,
    4, 0, 67, 38, 198, 6, 5, 0, 1, 250, 244, 235,
    254, 0, 0, 0, 0, 0, 0, 0, 0, 255, 255, 0,
    0, 0, 154, 0, 0, 255, 255, 0, 0, 0, 146, 0,
    0, 255, 255, 0, 128, 11, 146, 0, 0, 31, 0, 85,
    124, 0, 0>>

(* the state the BIOS leaves when it jumps to the boot sector, with *)
(* interrupts still disabled                                       *)
Pm286Regs ==
  [cs |-> 0, ss |-> 48, ds |-> 64, es |-> 80,
   ccs |-> RealCache(0), css |-> RealCache(48),
   cds |-> RealCache(64), ces |-> RealCache(80),
   ip |-> 31744, sp |-> 256, si |-> 0, di |-> 0, ax |-> 4660, cx |-> 0,
   flags |-> 2, gdtbase |-> 0, gdtlimit |-> 65535,
   idtbase |-> 0, idtlimit |-> 1023, msw |-> 65520]

Pm286Images ==
  { MemOf(BootCode \cup LoadallImage(Pm286Regs) \cup Bytes(31744, Pm286Code)) }

(* Real-mode addressing at the top of the first megabyte: optionally the  *)
(* A20 gate is opened through the keyboard controller (OUT 64h,0D1h; OUT  *)
(* 60h,02h); then MOV AX,ds; MOV DS,AX; MOV BX,bx; MOV AL,al; XLAT;       *)
(* MOV BYTE [0010h],77h; MOVSB; HLT.                                      *)
OpenA20 == <<176, 209, 230, 100, 176, 2, 230, 96>>

AddressCases == { <<0, 65535, 16, 0>>, <<1, 65535, 16, 0>>,
                  <<0, 1024, 65535, 1>>, <<0, 1024, 16, 2>> }

AddressImages ==
  { RealImage(2, 0, 0,
              (IF c[1] = 1 THEN OpenA20 ELSE <<>>)
                \o <<184, Lo(c[2]), Hi(c[2]), 142, 216,
                     187, Lo(c[3]), Hi(c[3]), 176, c[4], 215,
                     198, 6, 16, 0, 119, 164, 244>>) : c \in AddressCases }

(* the slave controller is initialised and its line 0 masked, with the *)
(* master left as i8259_init set it up                                 *)
SlaveMaskImages ==
  { RealImage(2, 0, 0, <<176, 19, 230, 160, 176, 112, 230, 161,
                         176, mask, 230, 161, 251, 244>>) : mask \in {0, 1} }

(* the keyboard controller is told to pulse the reset line: MOV AL, 0FEh; *)
(* OUT 64h, AL, in real mode and in protected mode                        *)
KbcResetImages ==
  { RealImage(FlagIF + 2, 4660, 3, <<176, 254, 230, 100, 244>>),
    (8192 :> 176) @@ (8193 :> 254) @@ (8194 :> 230) @@ (8195 :> 100)
      @@ ProtImage(3, 155, 134, 65535, 111) }

(* LOADALL sets MSW.TS (msw = 0xFFF8); the program is NOP, ESC with a   *)
(* register ModR/M byte, HLT, and 0100:0001 holds a HLT as well         *)
EscImages ==
  { Patch(RealImage(2, 0, 0, <<144, op, 192, 244>>),
          { <<2048 + 102, 248>>, <<4097, 244>> }) : op \in {216, 223} }

(* REPE/REPNE/no prefix before CMPSB or SCASB: the source at 0400:000F.. *)
(* holds A3 A1 A2, the destination at 0500:001F.. is given per case.    *)
(* A case is <<flags, AL, CX, code, destination bytes>>.                *)
ScanCases ==
  { <<0, 0, 4, <<243, 166>>, <<0, 161, 162, 99>>>>,
    <<0, 0, 2, <<243, 166>>, <<0, 161, 162, 99>>>>,
    <<0, 0, 4, <<242, 166>>, <<0, 7, 162>>>>,
    <<0, 162, 4, <<242, 174>>, <<0, 7, 162>>>>,
    <<0, 7, 4, <<243, 174>>, <<0, 7, 162>>>>,
    <<0, 1, 2, <<242, 174>>, <<0, 7, 162>>>>,
    <<1, 9, 4, <<38, 242, 174>>, <<9, 7, 162>>>>,
    <<0, 7, 1, <<174>>, <<0, 7, 162>>>>,
    <<0, 0, 1, <<166>>, <<0, 161, 162>>>> }

ScanImages ==
  { Patch(RealImage(FlagIF + c[1] * FlagDF + 2, c[2], c[3], c[4] \o <<244>>),
          { <<20511 + i - 1, c[5][i]>> : i \in 1..Len(c[5]) }) : c \in ScanCases }

(* ring 0 loads the task register twice with selector 30h *)
BusyImages ==
  { ProtProgram(<<184, 48, 0, 15, 0, 216, 15, 0, 216, 244>>, {}) }

(* ring 0 tries to leave protected mode: LMSW with PE clear, CLTS, LOADALL *)
ModeImages ==
  { ProtProgram(<<184, 0, 0, 15, 1, 240, 15, 6, 15, 5, 244>>, {}) }

Images == RepImages \cup PrefixImages \cup TrapImages \cup HaltImages
            \cup IntImages \cup PicImages \cup ProtImages
            \cup KbcResetImages \cup SlaveMaskImages \cup Pm286Images
            \cup AddressImages \cup RingImages \cup LoadImages
            \cup TableImages \cup Ring3Images \cup LimitImages
            \cup EscImages \cup ScanImages \cup BusyImages
            \cup ModeImages

CallbackVectors == {1, 3, 13, 21}

----------------------------------------------------------------------------
(* The machine *)

Fresh(s) == [s EXCEPT !.ev = <<>>, !.io = <<>>]

Count(ev, kind) == Cardinality({ i \in 1..Len(ev) : ev[i][1] = kind })

Has(ev, kind, arg) == \E i \in 1..Len(ev) : ev[i] = <<kind, arg>>

(* TF was clear when the iteration copied it into the trap-toggle latch and *)
(* is set when the iteration ends                                          *)
SetsTF(r) == Has(r.ev, "tf", 0) /\ r.tf = 1

(* the port writes of one iteration reach the PIC that owns the port *)
RECURSIVE ApplyIo(_, _, _)
ApplyIo(p, io, ports) ==
  IF io = <<>> THEN p
  ELSE IF Head(io)[1] \in ports
    THEN ApplyIo(i8259_write(p, Head(io)[1], Head(io)[2]), Tail(io), ports)
  ELSE ApplyIo(p, Tail(io), ports)

Init ==
  /\ \E image \in Images : cpu = cpu_reset(ZeroCpu(image))
  /\ pic = i8259_init(FALSE)
  /\ pic2 = i8259_init(TRUE)
  /\ cmos = cmos_init
  /\ kbc = i8042_init
  /\ phase = "boot"
  /\ last = [kind |-> "init", copied |-> 0, loaded |-> FALSE,
             interrupted |-> FALSE, tfset1 |-> FALSE, tfset2 |-> FALSE,
             tfa1 |-> FALSE, tfa2 |-> FALSE, rst1 |-> FALSE, rst2 |-> FALSE,
             preempted |-> FALSE, irqs |-> 0, line |-> <<FALSE, 0>>,
             latched |-> FALSE]

(* the host registers an interrupt callback before the main loop starts *)
RegisterIntCallback(v) ==
  /\ phase = "boot"
  /\ v \notin cpu.int_callback
  /\ Cardinality(cpu.int_callback) < MaxCallbacks
  /\ cpu' = cpu_registerIntCallback(Fresh(cpu), v)
  /\ last' = [last EXCEPT !.kind = "register"]
  /\ UNCHANGED <<pic, pic2, phase, cmos, kbc>>

(* main.c: cpu_interruptCheck at the top of the main loop *)
InterruptCheck ==
  /\ phase \in {"boot", "ran"}
  /\ \E r \in {cpu_interruptCheck(Fresh(cpu), pic, pic2)} :
        /\ cpu' = r.c
        /\ pic' = r.m
        /\ pic2' = r.s
        /\ last' = [last EXCEPT
                      !.kind = IF r.taken THEN "accept" ELSE "check",
                      !.interrupted = @ \/ r.taken,
                      !.tfa1 = @ /\ ~r.taken,
                      !.preempted = @ \/ (r.taken /\ last.copied > 0
                                                  /\ cpu.regs.cx > 0)]
  /\ phase' = "checked"
  /\ UNCHANGED <<cmos, kbc>>

(* one iteration of the loop of cpu_exec *)
ExecIteration ==
  /\ phase \in {"checked", "ran"}
  /\ \E r \in {cpu_exec(Fresh(cpu))} :
        /\ ~r.unmodelled
        /\ cpu' = r
        /\ pic' = ApplyIo(pic, r.io, {32, 33})
        /\ pic2' = ApplyIo(pic2, r.io, {160, 161})
        /\ last' = [kind |-> "exec",
                    copied |-> last.copied + Count(r.ev, "movsb"),
                    loaded |-> last.loaded \/ Count(r.ev, "loadall") > 0,
                    interrupted |-> last.interrupted,
                    tfset1 |-> SetsTF(r),
                    tfset2 |-> last.tfset1,
                    tfa1 |-> SetsTF(r) /\ Count(r.ev, "reset") = 0,
                    tfa2 |-> last.tfa1 /\ Count(r.ev, "reset") = 0,
                    rst1 |-> Count(r.ev, "reset") > 0,
                    rst2 |-> last.rst1,
                    preempted |-> last.preempted,
                    irqs |-> last.irqs,
                    line |-> last.line,
                    latched |-> last.latched]
  /\ phase' = "ran"
  /\ UNCHANGED <<cmos, kbc>>

(* a device raises an IRQ line while the host services its timers *)
DoIrq(is_slave, irqnum) ==
  /\ phase = "ran"
  /\ last.irqs < MaxIrqs
  /\ \E r \in {i8259_doirq(pic, pic2, is_slave, irqnum)} :
        pic' = r.m /\ pic2' = r.s
  /\ last' = [last EXCEPT !.kind = "irq", !.irqs = @ + 1,
                          !.line = <<is_slave, irqnum>>,
                          !.latched = @ \/ Bit((IF is_slave THEN pic2 ELSE pic).imr,
                                               irqnum) = 0]
  /\ UNCHANGED <<cpu, phase, cmos, kbc>>

Next ==
  \/ \E v \in CallbackVectors : RegisterIntCallback(v)
  \/ InterruptCheck
  \/ ExecIteration
  \/ \E sl \in BOOLEAN, n \in 0..MaxIrqLine : DoIrq(sl, n)

Spec == Init /\ [][Next]_vars

TypeOK ==
  /\ cpu.ip \in 0..65535
  /\ \A r \in RegNames : cpu.regs[r] \in 0..65535
  /\ \A a \in DOMAIN cpu.mem : cpu.mem[a] \in 0..255
  /\ pic.irr \in 0..255 /\ pic.imr \in 0..255

----------------------------------------------------------------------------
(* Observations used by the properties *)

HasKind(ev, kind) == \E i \in 1..Len(ev) : ev[i][1] = kind

(* the state cpu_reset leaves, as far as the fetch loop sees it *)
ResetState(c) ==
  /\ c.segregs.cs = 61440 /\ c.ip = 65520 /\ c.msw = 65520
  /\ ~c.protected_mode /\ ~c.handling_fault
  /\ \A r \in RegNames : c.regs[r] = 0

(* the step ended inside cpu_intcall: an accepted IRQ or an INT instruction *)
EndsInIntcall ==
  \/ last.kind = "accept"
  \/ last.kind = "exec" /\ (Has(cpu.ev, "dispatch", 204) \/ Has(cpu.ev, "dispatch", 205))

----------------------------------------------------------------------------
(* C1: a fault other than vector 8 raised while the fault latch is set is  *)
(* delivered as vector 8 exactly once - the vector-8 gate is entered - and *)
(* no reset takes place.                                                   *)
C1_DoubleFaultEntersVector8 ==
  \A i \in 1..Len(cpu.ev) :
    cpu.ev[i][1] = "double" =>
      /\ Cardinality({ j \in (i + 1)..Len(cpu.ev) : cpu.ev[j] = <<"enter", 8>> }) = 1
      /\ \A j \in i..Len(cpu.ev) : cpu.ev[j][1] # "reset"

(* C2: after a triple fault the CPU is in the full reset state when the    *)
(* outermost cpu_intcall returns to the fetch loop.                        *)
C2_TripleFaultLeavesResetState ==
  (EndsInIntcall /\ HasKind(cpu.ev, "triple")) => ResetState(cpu)

(* C3: handling_fault is false at every instruction boundary. *)
C3_NoFaultInFlightAtBoundary == cpu.handling_fault = FALSE

(* a fault gate was entered in protected mode and the latch is clear again *)
C3_Witness ==
  /\ last.kind = "exec" /\ cpu.protected_mode
  /\ Has(cpu.ev, "int", 13) /\ Has(cpu.ev, "enter", 13)
  /\ ~HasKind(cpu.ev, "reset")
  /\ ~cpu.handling_fault

(* the architectural part of the CPU record: all but the event log and the *)
(* log of port writes                                                      *)
Arch(c) == [c EXCEPT !.ev = <<>>, !.io = <<>>]

(* C4: cpu_interruptCheck delivers an interrupt exactly when the           *)
(* trap-toggle latch is clear, IF is set and the master PIC has a pending  *)
(* unmasked line; it then clears the halt latch and enters the vector      *)
(* i8259_nextintr returns; otherwise CPU and PIC state are unchanged.      *)
C4_InterruptCheckDelivers ==
  [][phase' = "checked" =>
       LET wanted == /\ ~cpu.trap_toggle
                     /\ cpu.ifl # 0
                     /\ BitAnd(pic.irr, 255 - pic.imr) # 0
           r == i8259_nextintr(pic, pic2)
       IN /\ wanted <=> HasKind(cpu'.ev, "int")
          /\ wanted => /\ cpu'.ev[2] = <<"int", r.v>>
                       /\ ~cpu'.hltstate
                       /\ last'.kind = "accept"
                       /\ pic' = r.m /\ pic2' = r.s
          /\ ~wanted => /\ Arch(cpu') = Arch(cpu)
                        /\ pic' = pic /\ pic2' = pic2]_vars

(* a halted CPU was woken by an accepted IRQ and entered its handler *)
C4_Witness ==
  /\ last.kind = "accept"
  /\ Has(cpu.ev, "accept", 1)
  /\ HasKind(cpu.ev, "enter")
  /\ ~cpu.hltstate

(* C5, as stated: once halted, no instruction is fetched or executed and   *)
(* CS:IP, the registers and memory stay unchanged across iterations; only  *)
(* an accepted external interrupt or a reset clears the halt latch.        *)
C5_HaltFreezesCpu ==
  [][cpu.hltstate =>
       /\ last'.kind = "exec" =>
            /\ ~HasKind(cpu'.ev, "pfxrun") /\ ~HasKind(cpu'.ev, "dispatch")
            /\ cpu'.segregs = cpu.segregs /\ cpu'.ip = cpu.ip
            /\ cpu'.regs = cpu.regs /\ cpu'.mem = cpu.mem
       /\ ~cpu'.hltstate =>
            last'.kind = "accept" \/ HasKind(cpu'.ev, "reset")]_vars

(* C5, amended: once halted, no instruction is fetched or executed and     *)
(* only an accepted external interrupt or a reset clears the halt latch;   *)
(* CS:IP, the registers and memory stay unchanged across the iterations,   *)
(* except that an iteration entered with the trap-toggle latch set still   *)
(* raises interrupt 1 before it skips execution.                           *)
C5_HaltFreezesCpuButTrap ==
  [][cpu.hltstate =>
       /\ last'.kind = "exec" =>
            /\ ~HasKind(cpu'.ev, "pfxrun") /\ ~HasKind(cpu'.ev, "dispatch")
            /\ ~cpu.trap_toggle =>
                 /\ cpu'.segregs = cpu.segregs /\ cpu'.ip = cpu.ip
                 /\ cpu'.regs = cpu.regs /\ cpu'.mem = cpu.mem
            /\ cpu.trap_toggle => cpu'.ev[1] = <<"trap", 1>>
       /\ ~cpu'.hltstate =>
            last'.kind = "accept" \/ HasKind(cpu'.ev, "reset")]_vars

(* a halted CPU went through an iteration without fetching *)
C5_Witness ==
  /\ last.kind = "exec" /\ cpu.hltstate
  /\ cpu.ev = << <<"tf", 0>> >>

TrapRaised(c) == Has(c.ev, "trap", 1)

RepOffset(c) ==
  IF cpu_read(c, 8192) \in {242, 243} /\ cpu_read(c, 8193) = 164 THEN 1
  ELSE IF cpu_read(c, 8192) = 46 /\ cpu_read(c, 8193) = 243
            /\ cpu_read(c, 8194) = 164 THEN 2
  ELSE 0

(* CX and DF the program was started with, from the LOADALL block *)
StartCX(c) == cpu_readw(c, 2048 + 62)
StartDF(c) == Bit(cpu_readw(c, 2048 + 66), 10)

(* an index register after k byte transfers *)
Moved(c, start, k) ==
  IF StartDF(c) = 1 THEN W16(start + 65536 - k) ELSE W16(start + k)

InProgram(c) == c.segregs.cs = 512 /\ ~c.protected_mode

(* C7: for REP MOVSB started with CX = n, after every iteration CX = n - k *)
(* and SI, DI have moved by k in the direction of DF, k the bytes copied   *)
(* so far; a copying iteration rewinds IP to the first byte, the first     *)
(* iteration with CX = 0 copies nothing and leaves IP after MOVSB, and n   *)
(* bytes are copied in total.                                              *)
C7_RepMovsbCounts ==
  (last.loaded /\ RepOffset(cpu) > 0) =>
    LET n == StartCX(cpu)
        k == last.copied
    IN /\ cpu.regs.cx = n - k
       /\ cpu.regs.si = Moved(cpu, 16, k)
       /\ cpu.regs.di = Moved(cpu, 32, k)
       /\ (last.kind = "exec" /\ HasKind(cpu.ev, "movsb")) =>
            InProgram(cpu) /\ cpu.ip = 0
       /\ (last.kind = "exec" /\ Has(cpu.ev, "dispatch", 164)
             /\ ~HasKind(cpu.ev, "movsb")) =>
            k = n /\ InProgram(cpu) /\ cpu.ip = RepOffset(cpu) + 1
       /\ (cpu.hltstate /\ InProgram(cpu)) => k = n

(* a REP MOVSB of at least two bytes has run to its end *)
C7_Witness ==
  /\ last.loaded /\ RepOffset(cpu) > 0
  /\ cpu.hltstate /\ InProgram(cpu)
  /\ last.copied >= 2 /\ cpu.regs.cx = 0

(* the return frame on top of the stack in real mode *)
FrameIP(c) == cpu_readw(c, c.segregs.ss * 16 + c.regs.sp)
FrameCS(c) == cpu_readw(c, c.segregs.ss * 16 + W16(c.regs.sp + 2))
FrameFlags(c) == cpu_readw(c, c.segregs.ss * 16 + W16(c.regs.sp + 4))

(* C8: when an external interrupt is accepted between two iterations of    *)
(* REP MOVSB, the return IP pushed for the handler (when the vector is     *)
(* entered through the table, so that a frame is pushed) is the offset of  *)
(* the instruction's first prefix, CX, SI and DI reflect the transfers     *)
(* done, and after IRET the instruction resumes with its prefixes and the  *)
(* transfers total the initial CX.                                         *)
C8_InterruptedRepResumes ==
  (last.loaded /\ RepOffset(cpu) > 0 /\ last.preempted) =>
    LET n == StartCX(cpu)
        k == last.copied
    IN /\ (last.kind = "accept" /\ k > 0 /\ cpu.regs.cx > 0) =>
            /\ HasKind(cpu.ev, "enter") =>
                 FrameIP(cpu) = 0 /\ FrameCS(cpu) = 512
            /\ cpu.regs.cx = n - k
            /\ cpu.regs.si = Moved(cpu, 16, k)
            /\ cpu.regs.di = Moved(cpu, 32, k)
       /\ (last.kind = "exec" /\ Has(cpu.ev, "dispatch", 207)
             /\ cpu.regs.cx > 0) =>
            InProgram(cpu) /\ cpu.ip = 0
       /\ (cpu.hltstate /\ InProgram(cpu)) => k = n /\ cpu.regs.cx = 0

(* a REP MOVSB preempted after its first transfer has run to its end *)
C8_Witness ==
  /\ last.loaded /\ RepOffset(cpu) > 0 /\ last.preempted
  /\ cpu.int_callback = {}
  /\ cpu.hltstate /\ InProgram(cpu)
  /\ last.copied = StartCX(cpu)

(* C9: an instruction preceded by n prefix bytes raises interrupt 13 for   *)
(* the prefix limit if and only if n > 10.                                 *)
C9_PrefixLimit ==
  last.kind = "exec" =>
    \A i \in 1..Len(cpu.ev) :
      cpu.ev[i][1] = "pfxrun" =>
        (HasKind(cpu.ev, "pfxlimit") <=> cpu.ev[i][2] > 10)

(* the vector of the interrupt raised in a step *)
RaisedVector(ev) == (CHOOSE i \in 1..Len(ev) : ev[i][1] = "int")

(* a step of the host loop that is one call of cpu_intcall in real mode:   *)
(* an accepted IRQ, or an INT n / INT 3 instruction                        *)
RealIntcallStep ==
  /\ ~cpu.protected_mode
  /\ Count(cpu'.ev, "int") = 1
  /\ \/ last'.kind = "accept"
     \/ /\ last'.kind = "exec"
        /\ Has(cpu'.ev, "dispatch", 204) \/ Has(cpu'.ev, "dispatch", 205)
  /\ cpu'.ev[RaisedVector(cpu'.ev)][2] \notin cpu.int_callback

(* IP behind the instruction that raised the interrupt *)
ReturnIP ==
  IF last'.kind = "accept" THEN cpu.ip
  ELSE LET run == cpu'.ev[CHOOSE i \in 1..Len(cpu'.ev) : cpu'.ev[i][1] = "pfxrun"][2]
       IN W16(cpu.ip + run + (IF Has(cpu'.ev, "dispatch", 205) THEN 2 ELSE 1))

(* the frame and the vector load of a real-mode interrupt entry *)
RealEntry(v) ==
  /\ cpu'.regs.sp = W16(cpu.regs.sp + 65530)
  /\ FrameFlags(cpu') = makeflagsword(cpu)
  /\ FrameCS(cpu') = cpu.segregs.cs
  /\ FrameIP(cpu') = ReturnIP
  /\ cpu'.tf = 0 /\ cpu'.ifl = 0
  /\ cpu'.ip = cpu_readw(cpu', v * 4)
  /\ cpu'.segregs.cs = cpu_readw(cpu', v * 4 + 2)

(* C10, as stated: in real mode, with no host callback for v, cpu_intcall  *)
(* pushes the flags word as it was before entry, then CS, then IP, clears  *)
(* TF and IF and loads CS:IP from the words at v*4+2 and v*4.              *)
C10_RealModeEntry ==
  [][RealIntcallStep => RealEntry(cpu'.ev[RaisedVector(cpu'.ev)][2])]_vars

(* C10, amended: the same, unless v is 0x15 with AH = 0x87 or 0x88, which  *)
(* the dispatcher serves itself and returns from without building a frame. *)
C10_RealModeEntryNotIntercepted ==
  [][(RealIntcallStep
        /\ ~(cpu'.ev[RaisedVector(cpu'.ev)][2] = 21
               /\ Hi(cpu.regs.ax) \in {135, 136}))
       => RealEntry(cpu'.ev[RaisedVector(cpu'.ev)][2])]_vars

(* INT 15h with another function went through the vector table with IF set *)
C10_Witness ==
  /\ last.kind = "exec" /\ ~cpu.protected_mode
  /\ Has(cpu.ev, "dispatch", 205) /\ Has(cpu.ev, "enter", 21)
  /\ Bit(FrameFlags(cpu), 9) = 1 /\ cpu.ifl = 0
  /\ cpu.regs.sp = 250

(* a step of the host loop that is one call of cpu_intcall for a vector    *)
(* with a registered host callback, made while the fault latch is clear    *)
CallbackIntcallStep ==
  /\ ~cpu.handling_fault
  /\ Count(cpu'.ev, "int") = 1
  /\ \/ last'.kind = "accept"
     \/ /\ last'.kind = "exec"
        /\ Has(cpu'.ev, "dispatch", 204) \/ Has(cpu'.ev, "dispatch", 205)
  /\ cpu'.ev[RaisedVector(cpu'.ev)][2] \in cpu.int_callback

(* the callback of v ran once and nothing else of an interrupt entry did *)
CallbackOnly(v) ==
  /\ Count(cpu'.ev, "callback") = 1 /\ Has(cpu'.ev, "callback", v)
  /\ ~HasKind(cpu'.ev, "enter") /\ ~HasKind(cpu'.ev, "bios")
  /\ cpu'.regs.sp = cpu.regs.sp /\ cpu'.mem = cpu.mem
  /\ cpu'.segregs.cs = cpu.segregs.cs /\ cpu'.ip = ReturnIP
  /\ ~cpu'.handling_fault

(* C12, as stated: for every vector v with a registered host callback,     *)
(* cpu_intcall(v) made while the fault latch is clear invokes the callback *)
(* exactly once, pushes no frame, loads CS:IP from no gate or vector table *)
(* and returns with the fault latch clear.                                 *)
C12_CallbackPreempts ==
  [][CallbackIntcallStep => CallbackOnly(cpu'.ev[RaisedVector(cpu'.ev)][2])]_vars

(* C12, amended: the same, unless v is 0x15 with AH = 0x87 or 0x88, which  *)
(* the dispatcher serves itself before it looks for a callback.            *)
C12_CallbackPreemptsNotIntercepted ==
  [][(CallbackIntcallStep
        /\ ~(cpu'.ev[RaisedVector(cpu'.ev)][2] = 21
               /\ Hi(cpu.regs.ax) \in {135, 136}))
       => CallbackOnly(cpu'.ev[RaisedVector(cpu'.ev)][2])]_vars

(* INT 0Dh ran the host callback of the fault vector 13 and the latch is *)
(* clear again                                                           *)
C12_Witness ==
  /\ last.kind = "exec" /\ Has(cpu.ev, "dispatch", 205)
  /\ Has(cpu.ev, "int", 13) /\ Has(cpu.ev, "callback", 13)
  /\ 13 \in cpu.int_callback /\ ~cpu.handling_fault

(* the values the reset routine is documented to leave *)
ResetDone(v) ==
  /\ \A r \in RegNames : v.regs[r] = 0
  /\ v.msw = 65520 /\ v.idtr.limit = 1023 /\ v.gdtr.limit = 65535
  /\ v.cs = 61440 /\ v.ip = 65520
  /\ ~v.protected_mode
  /\ ~v.hltstate /\ ~v.trap_toggle /\ ~v.handling_fault
  /\ v.fpu = [cw |-> 895, sw |-> 0, tw |-> 65535]

(* C19: after cpu_reset - at power-on, on a triple fault or on keyboard-  *)
(* controller command 0xFE - the general registers are zero, MSW is       *)
(* 0xFFF0, the IDTR limit 0x03FF, the GDTR limit 0xFFFF, CS:IP is         *)
(* F000:FFF0, the CPU is in real mode with the halt, trap-toggle and      *)
(* fault latches clear, and the FPU has control word 0x037F, status word  *)
(* 0 and tag word 0xFFFF.  The state of the latest return of cpu_reset is *)
(* examined, and the machine itself when the reset ended the step.        *)
C19_ResetLeavesDocumentedState ==
  /\ ResetDone(cpu.atreset)
  /\ (Len(cpu.ev) > 0 /\ cpu.ev[Len(cpu.ev)][1] = "reset") =>
       ResetDone(ResetView(cpu).atreset)

(* OUT 64h, AL with AL = 0xFE reset a CPU that ran in protected mode *)
C19_Witness ==
  /\ last.kind = "exec" /\ Has(cpu.ev, "dispatch", 230)
  /\ cpu.ev[Len(cpu.ev)][1] = "reset"
  /\ cpu.kbc_command = 254
  /\ cpu.segregs.ss = 16
  /\ cpu.ip = 65520 /\ ~cpu.protected_mode

(* a triple fault in protected mode went through cpu_reset *)
C19_WitnessTripleFault ==
  /\ last.kind = "exec" /\ HasKind(cpu.ev, "triple")
  /\ HasKind(cpu.ev, "reset") /\ ResetDone(cpu.atreset)

(* C20: doirq(n) sets IRR bit n only when IMR bit n is clear; a request on *)
(* a masked line, on the master or on the slave, changes no IRR bit of     *)
(* either controller, and as long as every request made was on a masked   *)
(* line no interrupt is delivered.                                         *)
C20_MaskedRequestDiscarded ==
  [][/\ last'.kind = "irq" =>
          /\ Bit((IF last'.line[1] THEN pic2 ELSE pic).imr, last'.line[2]) = 1
                => pic'.irr = pic.irr /\ pic2'.irr = pic2.irr
          /\ Bit((IF last'.line[1] THEN pic2' ELSE pic').irr, last'.line[2]) = 1
                => \/ Bit((IF last'.line[1] THEN pic2 ELSE pic).imr,
                          last'.line[2]) = 0
                   \/ Bit((IF last'.line[1] THEN pic2 ELSE pic).irr,
                          last'.line[2]) = 1
     /\ last'.kind = "accept" => last.latched]_vars

(* the machine runs pm286.asm *)
Pm286(c) == last.loaded /\ cpu_read(c, 31744) = 250 /\ cpu_read(c, 31767) = 234

(* the last step executed an instruction with this opcode *)
Ran(op) == last.kind = "exec" /\ Has(cpu.ev, "dispatch", op)

(* the descriptor a selector names in the GDT, as a segment cache holds it *)
GdtEntry(c, selector) ==
  [base |-> read_24bit_base(c, c.gdtr.base + (selector \div 8) * 8 + 2),
   limit |-> cpu_readw(c, c.gdtr.base + (selector \div 8) * 8),
   access |-> cpu_read(c, c.gdtr.base + (selector \div 8) * 8 + 5),
   valid |-> TRUE]

(* C17: starting in real mode, the sequence of pm286.asm - LGDT, LMSW with *)
(* bit 0 set, far JMP 08h:offset, MOV DS/ES/SS from a ring-0 data selector *)
(* - raises no interrupt; LMSW leaves each of the four caches equal to     *)
(* {selector << 4, 0xFFFF, 0x93, valid}, the far JMP replaces the CS cache *)
(* with GDT entry 1, every later segment load replaces its cache with the  *)
(* named GDT entry, and a write through ES = 18h lands at 0xB8000 + offset.*)
C17_RealToProtectedEntry ==
  Pm286(cpu) =>
    /\ ~HasKind(cpu.ev, "int")
    /\ (Ran(15) /\ cpu.opcode = 1 /\ cpu.reg = 6) =>
         /\ cpu.protected_mode
         /\ \A g \in SegNames :
              cpu.segcache[g] = [base |-> cpu.segregs[g] * 16, limit |-> 65535,
                                 access |-> 147, valid |-> TRUE]
    /\ Ran(234) =>
         /\ cpu.segregs.cs = 8 /\ cpu.ip = 31772
         /\ cpu.segcache.cs = GdtEntry(cpu, 8)
         /\ cpu.segcache.cs.access = 154
    /\ (Ran(142) /\ cpu.protected_mode) =>
         /\ cpu.segregs[SegAt[cpu.reg + 1]] = cpu.regs.ax
         /\ cpu.segcache[SegAt[cpu.reg + 1]] = GdtEntry(cpu, cpu.regs.ax)
    /\ Ran(198) =>
         /\ cpu.segregs.es = 24
         /\ cpu.ea = 753664 + cpu.disp16
         /\ cpu_read(cpu, cpu.ea) = cpu_read(cpu, cpu.ip - 1)

(* pm286.asm ran to its HLT in protected mode with the six bytes stored *)
C17_Witness ==
  /\ Pm286(cpu) /\ cpu.hltstate /\ cpu.protected_mode
  /\ cpu.segregs = [cs |-> 8, ds |-> 16, ss |-> 16, es |-> 24]
  /\ cpu.segcache.es.base = 753664
  /\ \A k \in 0..5 :
       cpu_read(cpu, 753664 + k) = <<65, 4, 66, 2, 67, 1>>[k + 1]

(* (selector << 4) + offset, reduced modulo 2^20 while the A20 line is off *)
RealAddress(c, selector, offset) ==
  IF c.a20_enabled THEN selector * 16 + offset
  ELSE (selector * 16 + offset) % 1048576

(* the address of the n-th event of a kind in the log of a step *)
EventArg(ev, kind) == ev[CHOOSE i \in 1..Len(ev) : ev[i][1] = kind][2]

(* C18: in real mode every physical address the core forms for a memory    *)
(* access equals (selector << 4) + 16-bit offset, reduced modulo 2^20      *)
(* whenever the A20 line is disabled: the operand address getea leaves in  *)
(* cpu->ea, the source and destination of MOVSB formed by get_real_address *)
(* and the table address of XLAT.                                          *)
C18_RealModeAddresses ==
  [][(last'.kind = "exec" /\ ~cpu.protected_mode /\ ~cpu'.protected_mode
        /\ ~HasKind(cpu'.ev, "int")) =>
       /\ Has(cpu'.ev, "dispatch", 198) =>
            cpu'.ea = RealAddress(cpu', cpu'.useseg, EaOffset(cpu', cpu'.rm))
       /\ HasKind(cpu'.ev, "movsb") =>
            /\ EventArg(cpu'.ev, "movsb")
                 = cpu_read(cpu, RealAddress(cpu, cpu'.useseg, cpu.regs.si))
            /\ cpu_read(cpu', RealAddress(cpu, cpu.segregs.es, cpu.regs.di))
                 = EventArg(cpu'.ev, "movsb")
       /\ Has(cpu'.ev, "dispatch", 215) =>
            EventArg(cpu'.ev, "xlat")
              = RealAddress(cpu', cpu'.useseg,
                            W16(cpu.regs.bx + Lo(cpu.regs.ax)))]_vars

(* the position of the first event of a kind in the log of a step *)
FirstAt(ev, kind) ==
  CHOOSE i \in 1..Len(ev) :
    ev[i][1] = kind /\ \A j \in 1..(i - 1) : ev[j][1] # kind

(* the argument of the first event of a kind in the log of a step *)
FirstArg(ev, kind) == ev[FirstAt(ev, kind)][2]

(* the acceptance rules of a segment-register load: seg_reg 1 is CS, 2 is *)
(* SS, 0 and 3 are ES and DS                                              *)
LoadRule(seg_reg, access, rpl, cpl) ==
  IF seg_reg = 2
    THEN /\ Bit(access, 3) = 0 /\ Bit(access, 1) = 1
         /\ rpl = cpl /\ (access \div 32) % 4 = cpl
  ELSE IF seg_reg = 1
    THEN Bit(access, 3) = 1 /\ (access \div 32) % 4 <= cpl
  ELSE /\ Bit(access, 3) = 0 \/ BitAnd(access, 10) = 10
       /\ cpl <= (access \div 32) % 4 /\ rpl <= (access \div 32) % 4

(* the step executed a protected-mode instruction that loads a segment   *)
(* register, and its first load, made before any interrupt, names a      *)
(* non-null, in-table, present descriptor                                *)
SegmentLoadStep ==
  /\ last'.kind = "exec" /\ cpu.protected_mode
  /\ \E op \in {7, 23, 31, 142, 154, 207, 234} : Has(cpu'.ev, "dispatch", op)
  /\ HasKind(cpu'.ev, "ldreq")
  /\ \A j \in 1..FirstAt(cpu'.ev, "ldreq") : cpu'.ev[j][1] # "int"
  /\ BitAnd(FirstArg(cpu'.ev, "ldreq") % 65536, 65532) # 0
  /\ get_descriptor_info(cpu, FirstArg(cpu'.ev, "ldreq") % 65536).ok
  /\ Bit(get_descriptor_info(cpu, FirstArg(cpu'.ev, "ldreq") % 65536).access, 7) = 1

(* the load was accepted: the cache of the register was written *)
LoadAccepted(ev) ==
  /\ FirstAt(ev, "ldreq") < Len(ev)
  /\ ev[FirstAt(ev, "ldreq") + 1] = <<"ldok", FirstArg(ev, "ldreq")>>

(* C13: every protected-mode segment-register load (MOV/POP to a segment   *)
(* register, far JMP, far CALL, IRET) of a non-null, in-table, present     *)
(* descriptor is accepted if and only if the rule of the register holds    *)
(* (SS: writable data, RPL = CPL = DPL; CS: code, DPL <= CPL; DS/ES: data  *)
(* or readable code, CPL <= DPL and RPL <= DPL), where CPL is the RPL of   *)
(* the CS selector in effect when the instruction started.                 *)
C13_LoadAcceptedIffRule ==
  [][SegmentLoadStep =>
       (LoadAccepted(cpu'.ev)
          <=> LoadRule(FirstArg(cpu'.ev, "ldreq") \div 65536,
                       get_descriptor_info(cpu, FirstArg(cpu'.ev, "ldreq") % 65536).access,
                       FirstArg(cpu'.ev, "ldreq") % 4,
                       cpu.segregs.cs % 4))]_vars

(* event i of a step is a request to a descriptor-loading routine for a *)
(* non-null selector, made with the descriptor tables the step started  *)
(* with, and the routine answered it with an interrupt                  *)
RejectedAt(ev, i) ==
  /\ ev[i][1] \in {"ldreq", "ldtreq", "trreq"}
  /\ \A j \in 1..i : ev[j][1] # "reset"
  /\ BitAnd(ev[i][2] % 65536, 65532) # 0
  /\ ev[i + 1][1] = "int"

(* the vector fits the reason: 13, or 11 for a descriptor that is in its *)
(* table with the present bit clear                                      *)
RejectionVector(c, selector, v) ==
  \/ v = 13
  \/ /\ v = 11
     /\ get_descriptor_info(c, selector).ok
     /\ Bit(get_descriptor_info(c, selector).access, 7) = 0

(* C14: every rejection of a selector by load_descriptor, load_ldtr,      *)
(* load_tr and the LLDT/LTR instructions for a privilege mismatch, a       *)
(* selector outside its table or a wrong descriptor type raises vector 13, *)
(* a descriptor whose present bit is clear raises vector 11, and no other  *)
(* vector is raised for those conditions.                                  *)
C14_RejectionVectors ==
  [][(last'.kind = "exec" /\ cpu.protected_mode) =>
       /\ \A i \in 1..(Len(cpu'.ev) - 1) :
            RejectedAt(cpu'.ev, i) =>
              RejectionVector(cpu, cpu'.ev[i][2] % 65536, cpu'.ev[i + 1][2])
       /\ (Has(cpu'.ev, "dispatch", 15) /\ cpu'.opcode = 0 /\ cpu'.reg = 3
             /\ cpu.segregs.cs % 4 # 0) =>
            FirstArg(cpu'.ev, "int") = 13]_vars

(* the IDT gate of a vector *)
GateOf(c, v) ==
  [access |-> cpu_read(c, c.idtr.base + v * 8 + 5),
   new_ip |-> cpu_readw(c, c.idtr.base + v * 8),
   new_cs |-> cpu_readw(c, c.idtr.base + v * 8 + 2)]

(* ss0 of the loaded task register names a present, writable ring-0 data *)
(* segment                                                               *)
Ring0Stack(c) ==
  /\ c.tr_cache.valid
  /\ c.tr_cache.ss0 % 8 = 0 /\ BitAnd(c.tr_cache.ss0, 65532) # 0
  /\ get_descriptor_info(c, c.tr_cache.ss0).ok
  /\ BitAnd(get_descriptor_info(c, c.tr_cache.ss0).access, 234) = 130

(* a protected-mode step that raises interrupt v, through a present gate *)
(* whose target code segment is more privileged than the running code    *)
InnerIntcallStep(v) ==
  /\ cpu.protected_mode /\ ~cpu.handling_fault
  /\ HasKind(cpu'.ev, "int") /\ FirstArg(cpu'.ev, "int") = v
  /\ \/ last'.kind = "accept"
     \/ /\ last'.kind = "exec"
        /\ Has(cpu'.ev, "dispatch", 204) \/ Has(cpu'.ev, "dispatch", 205)
  /\ v \notin cpu.int_callback
  /\ v * 8 + 7 <= cpu.idtr.limit
  /\ Bit(GateOf(cpu, v).access, 7) = 1
  /\ get_descriptor_info(cpu, GateOf(cpu, v).new_cs).ok
  /\ Bit(get_descriptor_info(cpu, GateOf(cpu, v).new_cs).access, 7) = 1
  /\ Bit(get_descriptor_info(cpu, GateOf(cpu, v).new_cs).access, 3) = 1
  /\ (get_descriptor_info(cpu, GateOf(cpu, v).new_cs).access \div 32) % 4
       < cpu.segregs.cs % 4
  /\ Ring0Stack(cpu)

(* the words of the inner frame, from the top of the new stack *)
InnerWords(v) ==
  (IF v = 8 \/ v \in 10..13 THEN <<0>> ELSE <<>>)
    \o <<ReturnIP, cpu.segregs.cs, makeflagsword(cpu), cpu.regs.sp,
         cpu.segregs.ss>>

(* C11: in protected mode, when the target code segment of an interrupt   *)
(* has DPL < CPL and a valid task register with a ring-0 stack is loaded, *)
(* the dispatcher switches to ss0:sp0, pushes old SS, old SP, flags, old  *)
(* CS, old IP (and a zero word for vectors 8 and 10-13), enters the       *)
(* handler at the gate's CS:IP and raises no further fault.               *)
C11_InnerStackSwitch ==
  [][\A v \in 0..255 : InnerIntcallStep(v) =>
       /\ Count(cpu'.ev, "int") = 1
       /\ cpu'.segregs.ss = cpu.tr_cache.ss0
       /\ cpu'.regs.sp = W16(cpu.tr_cache.sp0 + 65536 - 2 * Len(InnerWords(v)))
       /\ \A k \in 1..Len(InnerWords(v)) :
            cpu_readw(cpu', GdtEntry(cpu, cpu.tr_cache.ss0).base
                              + cpu'.regs.sp + 2 * (k - 1)) = InnerWords(v)[k]
       /\ cpu'.segregs.cs = GateOf(cpu, v).new_cs
       /\ cpu'.ip = GateOf(cpu, v).new_ip
       /\ cpu'.segcache.cs = GdtEntry(cpu, GateOf(cpu, v).new_cs)]_vars

(* the cache LMSW makes from a real-mode selector *)
LmswCache(selector) ==
  [base |-> selector * 16, limit |-> 65535, access |-> 147, valid |-> TRUE]

(* every valid segment cache holds the descriptor its selector names, or *)
(* is one of the caches LMSW made                                        *)
CachesCurrent(c) ==
  \A r \in SegNames :
    c.segcache[r].valid =>
      \/ c.segcache[r] = GdtEntry(c, c.segregs[r])
      \/ c.segcache[r] = LmswCache(c.segregs[r])

(* C15: in protected mode no instruction changes the selector in a        *)
(* segment register without passing it through the descriptor-loading     *)
(* protocol, so a valid segcache[r] holds the descriptor accepted for the  *)
(* selector currently in r (except the four caches LMSW makes from the     *)
(* real-mode selectors).  Checked for the instructions that complete       *)
(* without an interrupt.                                                   *)
C15_SelectorsPassLoadProtocol ==
  [][(last'.kind = "exec" /\ cpu.protected_mode /\ cpu'.protected_mode
        /\ ~HasKind(cpu'.ev, "int") /\ CachesCurrent(cpu)) =>
       /\ CachesCurrent(cpu')
       /\ \A r \in SegNames :
            cpu'.segregs[r] # cpu.segregs[r] =>
              Has(cpu'.ev, "ldreq", LoadArg(r, cpu'.segregs[r]))]_vars

(* a protected-mode instruction that makes its access through DS, whose *)
(* cache holds the descriptor loaded for the selector in DS             *)
ThroughDs ==
  /\ last'.kind = "exec" /\ cpu.protected_mode
  /\ cpu'.useseg = cpu.segregs.ds
  /\ cpu.segcache.ds = GdtEntry(cpu, cpu.segregs.ds)

(* C16: after a successful load_descriptor(r, sel), a protected-mode       *)
(* access through r at offset off goes to segcache[r].base + off when      *)
(* off <= segcache[r].limit and raises general protection (13) when        *)
(* off > limit, on both translation paths: getea for a ModR/M operand (the *)
(* store of MOV Eb,Ib) and get_real_address for a direct segment:offset    *)
(* access (the source of MOVSB).                                           *)
C16_TranslationChecksLimit ==
  [][ThroughDs =>
       /\ (Has(cpu'.ev, "dispatch", 198) /\ cpu'.mode < 3) =>
            IF EaOffset(cpu', cpu'.rm) <= cpu.segcache.ds.limit
              THEN /\ cpu'.ea = cpu.segcache.ds.base + EaOffset(cpu', cpu'.rm)
                   /\ ~HasKind(cpu'.ev, "int")
              ELSE Has(cpu'.ev, "int", 13)
       /\ Has(cpu'.ev, "dispatch", 164) =>
            IF cpu.regs.si <= cpu.segcache.ds.limit
              THEN /\ HasKind(cpu'.ev, "movsb")
                   /\ FirstArg(cpu'.ev, "movsb")
                        = cpu_read(cpu, cpu.segcache.ds.base + cpu.regs.si)
              ELSE Has(cpu'.ev, "int", 13)]_vars

----------------------------------------------------------------------------
(* The two interrupt controllers on their own: the guest programs them    *)
(* through their ports, then devices raise lines and the host asks for    *)
(* the next interrupt.  Master line 2 is the cascade input and is raised  *)
(* by the slave only.                                                     *)

PicEvenValues == {16, 17, 18, 19}
PicOddValues == {113}
PicLines == {0, 1}

PicPort(is_slave, odd) ==
  (IF is_slave THEN 160 ELSE 32) + (IF odd THEN 1 ELSE 0)

(* odd-port writes seen since the last ICW1, -1 before the first ICW1 *)
OddCount(k, portnum, value) ==
  IF portnum % 2 = 0 THEN (IF Bit(value, 4) = 1 THEN 0 ELSE k)
  ELSE IF k < 0 THEN k ELSE k + 1

PicInit ==
  /\ cpu = cpu_reset(ZeroCpu(<<>>))
  /\ pic = i8259_init(FALSE)
  /\ pic2 = i8259_init(TRUE)
  /\ cmos = cmos_init
  /\ kbc = i8042_init
  /\ phase = "pic"
  /\ last = [kind |-> "init", is_slave |-> FALSE, port |-> 0, value |-> 0,
             v |-> 0, writes |-> 0, irqs |-> 0, odd |-> -1, odd2 |-> -1]

(* OUT to port 20h/21h or A0h/A1h *)
PicWrite(is_slave, portnum, value) ==
  /\ phase = "pic"
  /\ last.writes < MaxPicWrites
  /\ pic' = IF is_slave THEN pic ELSE i8259_write(pic, portnum, value)
  /\ pic2' = IF is_slave THEN i8259_write(pic2, portnum, value) ELSE pic2
  /\ last' = [last EXCEPT
                !.kind = "write", !.is_slave = is_slave, !.port = portnum,
                !.value = value, !.writes = @ + 1,
                !.odd = IF is_slave THEN @ ELSE OddCount(@, portnum, value),
                !.odd2 = IF is_slave THEN OddCount(@, portnum, value) ELSE @]
  /\ UNCHANGED <<cpu, phase, cmos, kbc>>

PicDoIrq(is_slave, irqnum) ==
  /\ last.irqs < MaxIrqs
  /\ \E r \in {i8259_doirq(pic, pic2, is_slave, irqnum)} :
        pic' = r.m /\ pic2' = r.s
  /\ last' = [last EXCEPT !.kind = "irq", !.is_slave = is_slave,
                          !.value = irqnum, !.irqs = @ + 1]
  /\ phase' = "picrun"
  /\ UNCHANGED <<cpu, cmos, kbc>>

(* cpu_interruptCheck with IF set: i8259_nextintr on the master when it *)
(* has a pending unmasked line                                          *)
PicNextIntr ==
  /\ Pending(pic) # 0
  /\ \E r \in {i8259_nextintr(pic, pic2)} :
        /\ pic' = r.m /\ pic2' = r.s
        /\ last' = [last EXCEPT !.kind = "next", !.v = r.v]
  /\ UNCHANGED <<cpu, phase, cmos, kbc>>

NextPic ==
  \/ \E is_slave \in BOOLEAN, value \in PicEvenValues :
       PicWrite(is_slave, PicPort(is_slave, FALSE), value)
  \/ \E is_slave \in BOOLEAN, value \in PicOddValues :
       PicWrite(is_slave, PicPort(is_slave, TRUE), value)
  \/ \E is_slave \in BOOLEAN, irqnum \in PicLines : PicDoIrq(is_slave, irqnum)
  \/ PicNextIntr

SpecPic == PicInit /\ [][NextPic]_vars

(* the lowest pending unmasked line of a controller was acknowledged: its *)
(* bit moved from IRR to ISR                                              *)
LineMoved(p, q, n) ==
  /\ q.irr = p.irr - 2 ^ n
  /\ q.isr = BitOr(p.isr, 2 ^ n)

(* C21: nextIntr selects the lowest-numbered line n whose IRR bit is set   *)
(* and whose IMR bit is clear, moves that bit from IRR to ISR and returns  *)
(* (icw2 & 0xF8) + n; when the selected master line is 2 it returns the    *)
(* result of the slave's nextIntr, the slave's vector base plus the slave  *)
(* line, instead.                                                          *)
C21_NextIntrSelectsLowest ==
  [][last'.kind = "next" =>
       IF LowestLine(Pending(pic)) # 2
         THEN /\ LineMoved(pic, pic', LowestLine(Pending(pic)))
              /\ last'.v = BitAnd(pic.icw2, 248) + LowestLine(Pending(pic))
              /\ pic2' = pic2
         ELSE /\ LowestLine(Pending(pic2)) < 8
              /\ LineMoved(pic2, pic2', LowestLine(Pending(pic2)))
              /\ last'.v = BitAnd(pic2.icw2, 248) + LowestLine(Pending(pic2))]_vars

(* what the k-th odd-port write after ICW1 is: 2, 3, 4 for ICW2..ICW4, 5 *)
(* for the mask register                                                 *)
IcwRole(icw1, k) ==
  IF k = 0 THEN 2
  ELSE IF k = 1 THEN
    (IF Bit(icw1, 1) = 0 THEN 3 ELSE IF Bit(icw1, 0) = 1 THEN 4 ELSE 5)
  ELSE IF k = 2 THEN
    (IF Bit(icw1, 1) = 0 /\ Bit(icw1, 0) = 1 THEN 4 ELSE 5)
  ELSE 5

(* an odd-port write to p, the k-th after its ICW1, took its role *)
OddWriteRole(p, q, k, value) ==
  IF IcwRole(p.icw1, k) = 5 THEN q.imr = value
  ELSE /\ q.imr = p.imr
       /\ IcwRole(p.icw1, k) = 2 => q.icw2 = value
       /\ IcwRole(p.icw1, k) = 3 => q.icw3 = value
       /\ IcwRole(p.icw1, k) = 4 => q.icw4 = value

(* C22: after an ICW1 write the following odd-port writes are consumed in *)
(* order as ICW2, then ICW3 unless ICW1 selects single mode (bit 1), then *)
(* ICW4 if and only if ICW1 bit 0 is set; only after that sequence is     *)
(* complete does an odd-port write set the IMR.                           *)
C22_IcwSequence ==
  [][(last'.kind = "write" /\ last'.port % 2 = 1) =>
       /\ (~last'.is_slave /\ last.odd >= 0) =>
            OddWriteRole(pic, pic', last.odd, last'.value)
       /\ (last'.is_slave /\ last.odd2 >= 0) =>
            OddWriteRole(pic2, pic2', last.odd2, last'.value)]_vars

----------------------------------------------------------------------------
(* The CMOS on its own: the guest selects an index through port 70h and   *)
(* writes or reads the data port 71h.                                     *)

CmosIndexValues == {12, 15, 16, 45, 46, 144}
CmosDataValues == {128, 255}
ClockValues == {0, 59}

CmosInit ==
  /\ cpu = cpu_reset(ZeroCpu(<<>>))
  /\ pic = i8259_init(FALSE)
  /\ pic2 = i8259_init(TRUE)
  /\ cmos = cmos_init
  /\ kbc = i8042_init
  /\ phase = "cmos"
  /\ last = [kind |-> "init", port |-> 0, value |-> 0, index |-> 0]

(* OUT 70h / OUT 71h *)
CmosWrite(port, value) ==
  /\ cmos' = cmos_write(cmos, port, value)
  /\ last' = [kind |-> "write", port |-> port, value |-> value,
              index |-> cmos.index]
  /\ UNCHANGED <<cpu, pic, pic2, phase, kbc>>

(* IN 71h *)
CmosRead(port, tm) ==
  /\ cmos' = cmos_read(cmos, port)
  /\ last' = [kind |-> "read", port |-> port,
              value |-> CmosReadValue(cmos, port, tm), index |-> cmos.index]
  /\ UNCHANGED <<cpu, pic, pic2, phase, kbc>>

NextCmos ==
  \/ \E value \in CmosIndexValues : CmosWrite(112, value)
  \/ \E value \in CmosDataValues : CmosWrite(113, value)
  \/ \E port \in {112, 113}, tm \in ClockValues : CmosRead(port, tm)

SpecCmos == CmosInit /\ [][NextCmos]_vars

(* the sum of ram[lo..hi] *)
RECURSIVE RamSum(_, _, _)
RamSum(ram, lo, hi) == IF lo > hi THEN 0 ELSE ram[hi] + RamSum(ram, lo, hi - 1)

(* C23: after cmos_init and after every write of a data byte to a CMOS    *)
(* index in 0x10..0x2D, ram[0x2E] * 256 + ram[0x2F] equals the sum of     *)
(* ram[0x10..0x2D] modulo 2^16.                                           *)
C23_ChecksumFollowsWrites ==
  (\/ last.kind = "init"
   \/ last.kind = "write" /\ last.port = 113 /\ last.index \in 16..45) =>
    cmos.ram[46] * 256 + cmos.ram[47] = RamSum(cmos.ram, 16, 45) % 65536

(* 0xFF was written to index 0x2D after index 0x10 was changed, and the *)
(* checksum needs both of its bytes                                     *)
C23_Witness ==
  /\ last.kind = "write" /\ last.port = 113 /\ last.index = 45
  /\ cmos.ram[45] = 255 /\ cmos.ram[16] = 128
  /\ cmos.ram[46] = 2 /\ cmos.ram[46] * 256 + cmos.ram[47] = 664

----------------------------------------------------------------------------
(* The FPU register stack on its own, from the state FINIT leaves: FLD of *)
(* a double pushes it, FSTP pops one.                                     *)

FpuValues == { <<16368, 0, 0, 0>>, <<49152, 0, 0, 1>> }

FpuInit ==
  /\ cpu = cpu_reset(ZeroCpu(<<>>))
  /\ pic = i8259_init(FALSE)
  /\ pic2 = i8259_init(TRUE)
  /\ cmos = cmos_init
  /\ kbc = i8042_init
  /\ phase = "fpu"
  /\ last = [kind |-> "init", prev |-> "init", ops |-> 0, x |-> NegNaN,
             v |-> NegNaN, top0 |-> 0, tw0 |-> 65535, below0 |-> 3]

(* FLD m64: FpuPush(cpu, FpuGetMemoryDouble(cpu)) *)
FpuLoad(x) ==
  /\ last.ops < MaxFpuOps
  /\ cpu' = FpuPush(cpu, x)
  /\ last' = [kind |-> "push", prev |-> last.kind, ops |-> last.ops + 1,
              x |-> x, v |-> last.v, top0 |-> FpuTop(cpu),
              tw0 |-> cpu.fpu.tw, below0 |-> FpuGetTag(cpu, -1)]
  /\ UNCHANGED <<pic, pic2, phase, cmos, kbc>>

(* FSTP m80: FpuSetMemoryLdbl(cpu, FpuPop(cpu)) *)
FpuStorePop ==
  /\ last.ops < MaxFpuOps
  /\ \E r \in {FpuPop(cpu)} :
        /\ cpu' = r.s
        /\ last' = [last EXCEPT !.kind = "pop", !.prev = last.kind,
                                !.ops = @ + 1, !.v = r.v]
  /\ UNCHANGED <<pic, pic2, phase, cmos, kbc>>

NextFpu ==
  \/ \E x \in FpuValues : FpuLoad(x)
  \/ FpuStorePop

SpecFpu == FpuInit /\ [][NextFpu]_vars

(* the pop that follows a push returned the pushed value and put top and *)
(* the tag word back                                                     *)
PushPopRestored ==
  /\ last'.v = last.x
  /\ FpuTop(cpu') = last.top0
  /\ cpu'.fpu.tw = last.tw0

(* C24, as stated: for any value x and any FPU state reachable from FINIT, *)
(* FpuPush(x) followed by FpuPop() returns x bit-for-bit and restores the  *)
(* top-of-stack pointer and the whole tag word to their values before the  *)
(* push.                                                                   *)
C24_PushPopRestores ==
  [][(last.kind = "push" /\ last'.kind = "pop") => PushPopRestored]_vars

(* C24, amended: the same, for a push made while the slot below the top is *)
(* empty; a push onto a full stack overwrites a valid slot, which the pop  *)
(* then leaves tagged empty.                                               *)
C24_PushPopRestoresUnlessFull ==
  [][(last.kind = "push" /\ last'.kind = "pop" /\ last.below0 = 3)
       => PushPopRestored]_vars

(* a value was pushed on three others and popped again *)
C24_Witness ==
  /\ last.kind = "pop" /\ last.prev = "push" /\ last.below0 = 3
  /\ last.v = <<49152, 0, 0, 1>> /\ last.x = last.v
  /\ FpuTop(cpu) = 5 /\ cpu.fpu.tw = 1023

(* the pop of a step, seen from the state before it *)
PopOfEmpty ==
  /\ last'.v = NegNaN
  /\ BitAnd(cpu'.fpu.sw, 65) = 65
  /\ cpu'.fpu.tw = cpu.fpu.tw /\ cpu'.fpu_st = cpu.fpu_st

PopOfValue ==
  /\ last'.v = cpu.fpu_st[FpuTop(cpu)]
  /\ cpu'.fpu.tw = cpu.fpu.tw + (3 - FpuGetTag(cpu, 0)) * (4 ^ FpuTop(cpu))
  /\ FpuTop(cpu') = (FpuTop(cpu) + 1) % 8

(* C25, as stated: FpuPop on an empty top-of-stack slot sets IE and SF and *)
(* returns negative NaN without reading, re-tagging or incrementing; only  *)
(* when the top slot is non-empty does pop read the value, mark the slot   *)
(* empty and increment top (modulo 8).                                     *)
C25_PopOfEmptyKeepsTop ==
  [][last'.kind = "pop" =>
       IF FpuGetTag(cpu, 0) = 3
         THEN PopOfEmpty /\ FpuTop(cpu') = FpuTop(cpu)
         ELSE PopOfValue]_vars

(* C25, amended: FpuPop on an empty top slot sets IE and SF and returns    *)
(* negative NaN without reading or re-tagging, on a non-empty top slot it  *)
(* reads the value and marks the slot empty; in both cases it increments   *)
(* top (modulo 8).                                                         *)
C25_PopOfEmptyMovesTop ==
  [][last'.kind = "pop" =>
       /\ FpuTop(cpu') = (FpuTop(cpu) + 1) % 8
       /\ IF FpuGetTag(cpu, 0) = 3 THEN PopOfEmpty ELSE PopOfValue]_vars

(* a value was pushed and popped, and a second pop found the stack empty *)
C25_Witness ==
  /\ last.kind = "pop" /\ last.prev = "pop" /\ last.ops = 3
  /\ last.v = NegNaN
  /\ cpu.fpu.sw = 2113 /\ cpu.fpu.tw = 65535

----------------------------------------------------------------------------
(* ESC with the task-switched bit set *)

(* an instruction step that dispatched an ESC opcode while MSW bit 3 was set *)
EscTrapStep ==
  /\ last'.kind = "exec"
  /\ HasKind(cpu'.ev, "esc")
  /\ ~cpu.protected_mode

(* C26: an ESC opcode (0xD8..0xDF) executed while MSW bit 3 (TS) is set     *)
(* does not invoke the FPU core (FPU stack, control, status and tag words   *)
(* unchanged) and raises interrupt 7; the next instruction executed is the  *)
(* first instruction of the vector-7 handler, at the CS:IP taken from the   *)
(* interrupt table.                                                         *)
C26_EscTrapsToVector7 ==
  [][EscTrapStep =>
       /\ cpu'.fpu = cpu.fpu /\ cpu'.fpu_st = cpu.fpu_st
       /\ Count(cpu'.ev, "int") = 1 /\ Has(cpu'.ev, "int", 7)
       /\ cpu'.segregs.cs = cpu_readw(cpu, 30)
       /\ cpu'.ip = cpu_readw(cpu, 28)]_vars

----------------------------------------------------------------------------
(* The arithmetic helpers on their own: the operands a and b, the carry *)
(* flag and AX (= a) are drawn at the start, one operation is applied.  *)

AluValues == {0, 1, 3, 5, 127, 128, 200, 255, 256, 32767, 32768, 65531, 65535}

ByteOps == {"add8", "adc8", "sub8", "sbb8", "and8", "or8", "xor8", "inc8",
            "dec8", "neg8", "shl8", "shr8", "sar8", "mul8", "div8", "idiv8"}

WordOps == {"sub16", "sbb16"}

Res8(s) == [s |-> s, v |-> s.res8]

Res16(s) == [s |-> s, v |-> s.res16]

ResAL(s) == [s |-> s, v |-> Lo(s.regs.ax)]

AluRun(op, s, a, b) ==
  CASE op = "add8" -> Res8(op_add8(s, a, b))
    [] op = "adc8" -> Res8(op_adc8(s, a, b))
    [] op = "sub8" -> Res8(op_sub8(s, a, b))
    [] op = "sbb8" -> Res8(op_sbb8(s, a, b))
    [] op = "and8" -> Res8(op_and8(s, a, b))
    [] op = "or8" -> Res8(op_or8(s, a, b))
    [] op = "xor8" -> Res8(op_xor8(s, a, b))
    [] op = "inc8" -> Res8(OpIncEb(s, a))
    [] op = "dec8" -> Res8(OpDecEb(s, a))
    [] op = "neg8" -> Res8(OpNegEb(s, a))
    [] op = "shl8" -> op_grp2_8(s, a, 4, b)
    [] op = "shr8" -> op_grp2_8(s, a, 5, b)
    [] op = "sar8" -> op_grp2_8(s, a, 7, b)
    [] op = "mul8" -> ResAL(OpMulEb(s, b))
    [] op = "div8" -> ResAL(op_div8(s, s.regs.ax, b))
    [] op = "idiv8" -> ResAL(op_idiv8(s, s.regs.ax, b))
    [] op = "sub16" -> Res16(op_sub16(s, a, b))
    [] op = "sbb16" -> Res16(op_sbb16(s, a, b))

AluInit ==
  /\ \E a \in AluValues, b \in AluValues, c \in {0, 1} :
        /\ cpu = [cpu_reset(ZeroCpu(<<>>)) EXCEPT !.cf = c, !.regs.ax = a]
        /\ last = [kind |-> "init", a |-> a, b |-> b, c |-> c, r |-> 0]
  /\ pic = i8259_init(FALSE)
  /\ pic2 = i8259_init(TRUE)
  /\ cmos = cmos_init
  /\ kbc = i8042_init
  /\ phase = "alu"

(* one operation on the operands drawn; an 8-bit operation takes the low *)
(* byte of a (MUL, DIV and IDIV take AL or AX) and a byte b              *)
AluApply(op) ==
  /\ last.kind = "init"
  /\ op \in ByteOps => last.b < 256
  /\ \E r \in {AluRun(op, Fresh(cpu), Lo(last.a), last.b)} :
        /\ cpu' = r.s
        /\ last' = [last EXCEPT !.kind = op, !.r = r.v]
  /\ UNCHANGED <<pic, pic2, phase, cmos, kbc>>

AluApplyWord(op) ==
  /\ last.kind = "init"
  /\ \E r \in {AluRun(op, Fresh(cpu), last.a, last.b)} :
        /\ cpu' = r.s
        /\ last' = [last EXCEPT !.kind = op, !.r = r.v]
  /\ UNCHANGED <<pic, pic2, phase, cmos, kbc>>

NextAlu ==
  \/ \E op \in ByteOps : AluApply(op)
  \/ \E op \in WordOps : AluApplyWord(op)

SpecAlu == AluInit /\ [][NextAlu]_vars

(* the first operand as the operation took it *)
AluLeft == IF last.kind \in WordOps THEN last.a ELSE Lo(last.a)

(* C27: for SUB and SBB at both widths, and for all operands a, b and     *)
(* carry-in c in {0,1} (c = 0 for SUB), CF after the operation equals the *)
(* borrow out of the full-precision subtraction a - b - c: CF = 1 exactly *)
(* when a < b + c computed without truncation.                            *)
C27_BorrowOut ==
  /\ last.kind \in {"sub8", "sub16"} => (cpu.cf = 1 <=> AluLeft < last.b)
  /\ last.kind \in {"sbb8", "sbb16"} =>
        (cpu.cf = 1 <=> AluLeft < last.b + last.c)

(* PF = 1 exactly when the byte has an even number of set bits *)
EvenParity(r) == IF BitCount(r % 256) % 2 = 0 THEN 1 ELSE 0

(* C28: for every 8-bit result r of a flag-setting operation (ADD, ADC,  *)
(* SUB, SBB, AND, OR, XOR, INC, DEC, NEG, shifts, MUL), PF after the     *)
(* operation equals the even parity of r.                                *)
C28_ParityOfResult ==
  last.kind \in ByteOps \ {"div8", "idiv8"} => cpu.pf = EvenParity(last.r)

(* a 16-bit or 8-bit register value read as a signed number *)
Signed16(x) == IF x >= 32768 THEN x - 65536 ELSE x

Signed8(x) == IF x >= 128 THEN x - 256 ELSE x

Magnitude(x) == IF x < 0 THEN 0 - x ELSE x

(* the quotient of a signed division, truncated toward zero *)
TruncQuotient(n, d) ==
  IF (n < 0) = (d < 0) THEN Magnitude(n) \div Magnitude(d)
  ELSE 0 - (Magnitude(n) \div Magnitude(d))

(* the registers after a division of n by d that fits *)
Divided(n, d, q) ==
  /\ ~HasKind(cpu.ev, "int")
  /\ Lo(cpu.regs.ax) = (q + 256) % 256
  /\ Hi(cpu.regs.ax) = (n - q * d + 256) % 256

DivideError == Count(cpu.ev, "int") = 1 /\ Has(cpu.ev, "int", 0)

DivOutcome(n, d, lo, hi) ==
  IF d = 0 THEN DivideError
  ELSE IF TruncQuotient(n, d) < lo \/ TruncQuotient(n, d) > hi
    THEN DivideError
  ELSE Divided(n, d, TruncQuotient(n, d))

(* C29: 8-bit DIV and IDIV raise vector 0 exactly when the divisor is    *)
(* zero or the true quotient does not fit in 8 bits (0..255 for DIV;     *)
(* -128..127 for IDIV, with AX and the divisor read as signed);          *)
(* otherwise they leave AL = quotient and AH = remainder such that       *)
(* AX_before = AL * divisor + AH under that signedness, the remainder    *)
(* taking the sign of the dividend.                                      *)
C29_DivideOutcome ==
  /\ last.kind = "div8" => DivOutcome(last.a, last.b, 0, 255)
  /\ last.kind = "idiv8" =>
        DivOutcome(Signed16(last.a), Signed8(last.b), -128, 127)

----------------------------------------------------------------------------
(* Repeated compare and scan *)

(* an instruction step that dispatched CMPSB or SCASB under REPE or REPNE *)
(* in real mode and did not end in a reset                                *)
RepScanStep ==
  /\ last'.kind = "exec"
  /\ Has(cpu'.ev, "dispatch", 166) \/ Has(cpu'.ev, "dispatch", 174)
  /\ cpu'.reptype # 0
  /\ ~HasKind(cpu'.ev, "int")

(* the offset of the byte after the instruction: its prefixes and opcode *)
AfterScan == W16(cpu'.firstip + FirstArg(cpu'.ev, "pfxrun") + 1)

ScanDelta == IF cpu.df # 0 THEN 65535 ELSE 1

(* one iteration was made: CX counted down, the index registers moved *)
ScanIterated ==
  /\ Count(cpu'.ev, "scan") = 1
  /\ cpu'.regs.cx = cpu.regs.cx - 1
  /\ cpu'.regs.di = W16(cpu.regs.di + ScanDelta)
  /\ cpu'.regs.si = IF Has(cpu'.ev, "dispatch", 166)
                       THEN W16(cpu.regs.si + ScanDelta) ELSE cpu.regs.si

(* the zero flag the iteration left ends the repetition *)
ScanStops ==
  \/ cpu'.reptype = 1 /\ cpu'.zf = 0
  \/ cpu'.reptype = 2 /\ cpu'.zf = 1

(* C30: REPE CMPS/SCAS stops after the first iteration that leaves ZF = 0  *)
(* and REPNE CMPS/SCAS after the first iteration that leaves ZF = 1, in    *)
(* both cases with CX already decremented for that iteration, SI/DI        *)
(* advanced past the compared element and IP at the byte after the         *)
(* instruction; otherwise repetition continues until CX = 0: the           *)
(* instruction is entered again at its first byte, and with CX = 0 it is   *)
(* left without a further comparison.                                      *)
C30_RepeatedScanEnds ==
  [][RepScanStep =>
       IF cpu.regs.cx = 0
         THEN /\ ~HasKind(cpu'.ev, "scan")
              /\ cpu'.regs = cpu.regs /\ cpu'.zf = cpu.zf
              /\ cpu'.ip = AfterScan
         ELSE /\ ScanIterated
              /\ cpu'.ip = IF ScanStops THEN AfterScan ELSE cpu'.firstip]_vars

(* REPE CMPSB ended on the third pair, the first that differs: CX went *)
(* from 4 to 1, SI and DI are three bytes on and IP is behind the      *)
(* two-byte instruction                                                *)
C30_Witness ==
  /\ last.kind = "exec"
  /\ Has(cpu.ev, "dispatch", 166) /\ Has(cpu.ev, "scan", 99)
  /\ cpu.reptype = 1 /\ cpu.zf = 0
  /\ cpu.regs.cx = 1 /\ cpu.regs.si = 19 /\ cpu.regs.di = 35
  /\ cpu.ip = 2

----------------------------------------------------------------------------
(* The task register *)

(* an instruction step in which load_tr accepted a selector *)
LtrAccepted ==
  /\ last'.kind = "exec"
  /\ HasKind(cpu'.ev, "trreq")
  /\ ~HasKind(cpu'.ev, "int")

(* the descriptor-table slot the selector of the step names *)
TrSlot ==
  SelectorTable(cpu, FirstArg(cpu'.ev, "trreq")).base
    + (FirstArg(cpu'.ev, "trreq") \div 8) * 8

(* the task register already held this selector, loaded and marked busy *)
LoadedBefore ==
  /\ cpu.tr = FirstArg(cpu'.ev, "trreq")
  /\ cpu.tr_cache.valid
  /\ cpu_read(cpu, TrSlot + 5) % 16 = 3

(* C31: a successful LTR sets bit 1 (busy) of the access byte both in the *)
(* task-register cache and in the descriptor-table slot in memory, marks  *)
(* the cache valid, and snapshots sp0 and ss0 from the words at offsets 2 *)
(* and 4 of the TSS base; loading the same selector a second time is      *)
(* again accepted (busy type 0x03) and leaves the same cache contents.    *)
C31_LtrMarksBusy ==
  [][/\ LtrAccepted =>
          /\ cpu'.tr = FirstArg(cpu'.ev, "trreq")
          /\ cpu'.tr_cache.valid
          /\ cpu'.tr_cache.access = BitOr(cpu_read(cpu, TrSlot + 5), 2)
          /\ cpu_read(cpu', TrSlot + 5) = BitOr(cpu_read(cpu, TrSlot + 5), 2)
          /\ cpu'.tr_cache.base = read_24bit_base(cpu, TrSlot + 2)
          /\ cpu'.tr_cache.limit = cpu_readw(cpu, TrSlot)
          /\ cpu'.tr_cache.sp0 = cpu_readw(cpu, cpu'.tr_cache.base + 2)
          /\ cpu'.tr_cache.ss0 = cpu_readw(cpu, cpu'.tr_cache.base + 4)
     /\ (last'.kind = "exec" /\ HasKind(cpu'.ev, "trreq") /\ LoadedBefore
            /\ cpu.segregs.cs % 4 = 0) =>
          /\ ~HasKind(cpu'.ev, "int")
          /\ cpu'.tr_cache = cpu.tr_cache]_vars

(* the second LTR of selector 30h has been executed: the descriptor at *)
(* 6030h and the cache are busy, the ring-0 stack is 0010:0080         *)
C31_Witness ==
  /\ last.kind = "exec" /\ Has(cpu.ev, "trreq", 48)
  /\ ~HasKind(cpu.ev, "int")
  /\ cpu.ip = 9 /\ cpu.tr = 48
  /\ cpu.tr_cache = [base |-> 22528, limit |-> 43, access |-> 131,
                      valid |-> TRUE, sp0 |-> 128, ss0 |-> 16]
  /\ cpu_read(cpu, 24576 + 48 + 5) = 131

----------------------------------------------------------------------------
(* The saved instruction pointer *)

(* C32: at the moment any instruction is dispatched, the saved IP (saveip) *)
(* equals the offset of that instruction's first byte including its prefix *)
(* bytes, i.e. the IP at the instruction boundary, so that rewinding IP to *)
(* saveip re-executes the whole instruction with its prefixes.             *)
C32_SaveIpAtBoundary ==
  (last.kind = "exec" /\ HasKind(cpu.ev, "dispatch")) =>
     cpu.saveip = cpu.firstip

----------------------------------------------------------------------------
(* Nesting of the interrupt dispatcher *)

(* the ways a call of cpu_intcall ends *)
IntOutcomes == {"enter", "callback", "bios", "reset"}

(* the call entered at position i of the log, not nested in another one, *)
(* reached one of its ends before the next such call was made            *)
CallEnded(ev, i) ==
  \E j \in (i + 1)..Len(ev) :
    /\ ev[j][1] \in IntOutcomes
    /\ \A k \in (i + 1)..j : ev[k] # <<"depth", 1>>

----------------------------------------------------------------------------
(* Requests and deliveries *)

PicOf(m, s, is_slave) == IF is_slave THEN s ELSE m

(* the request on a line is taken: its IRR bit, which only i8259_doirq on *)
(* that line sets, is cleared by the step (master line 2 is the cascade   *)
(* input, not a request of its own)                                       *)
RequestTaken(is_slave, n) ==
  /\ is_slave \/ n # 2
  /\ Bit(PicOf(pic, pic2, is_slave).irr, n) = 1
  /\ Bit(PicOf(pic', pic2', is_slave).irr, n) = 0

LineVector(is_slave, n) == BitAnd(PicOf(pic, pic2, is_slave).icw2, 248) + n

(* C34: every vector that cpu_interruptCheck passes to cpu_intcall is the *)
(* vector of an IRQ line, master or slave, that was raised by doirq and   *)
(* not yet delivered, and each doirq leads to at most one delivery: the   *)
(* delivery takes the request of that line away, so that nothing remains  *)
(* pending that would be delivered again without a new doirq.             *)
C34_DeliveryTakesARequest ==
  [][ last'.kind = "accept" =>
        \E is_slave \in BOOLEAN, n \in 0..7 :
          /\ RequestTaken(is_slave, n)
          /\ cpu'.ev[2] = <<"int", LineVector(is_slave, n)>> ]_vars

----------------------------------------------------------------------------
(* The keyboard controller (i8042.c).  The operators work on d, the       *)
(* controller k together with what its handlers reach: the master PIC m,  *)
(* the CPU c, and the byte a read returns.                                *)

KbcNext(i) == (i + 1) % KBC_BUFFER_SIZE

(* if (kbc->command_byte & 1) i8259_doirq(kbc->i8259, 1) *)
KbcIrq(d) ==
  IF Bit(d.k.command_byte, 0) = 1
    THEN [d EXCEPT !.m = i8259_doirq(d.m, pic2, FALSE, 1).m]
    ELSE d

KbcEnqueue(d, scancode) ==
  [d EXCEPT !.k.buffer[d.k.head] = scancode, !.k.head = KbcNext(d.k.head)]

KbcPresent(d, scancode) ==
  IF Bit(d.k.status, 0) = 1 THEN d
  ELSE KbcIrq([d EXCEPT !.k.output_buffer = scancode,
                        !.k.status = BitOr(@, 1)])

i8042_send_scancode(d, scancode) ==
  IF KbcNext(d.k.head) = d.k.tail THEN d
  ELSE KbcPresent(KbcEnqueue(d, scancode), scancode)

KbcSetCommandByte(d, value) == [d EXCEPT !.k.command_byte = value]

(* the switch on the command written to port 64h *)
KbcSwitch(d, value) ==
  CASE value = 32 -> i8042_send_scancode(d, d.k.command_byte)
    [] value = 170 -> i8042_send_scancode(d, 85)
    [] value = 173 -> KbcSetCommandByte(d, BitOr(d.k.command_byte, 16))
    [] value = 174 -> KbcSetCommandByte(d, BitAnd(d.k.command_byte, 239))
    [] value = 167 -> KbcSetCommandByte(d, BitOr(d.k.command_byte, 32))
    [] value = 168 -> KbcSetCommandByte(d, BitAnd(d.k.command_byte, 223))
    [] value = 192 -> i8042_send_scancode(d, 0)
    [] value = 208 -> i8042_send_scancode(d, d.k.output_port)
    [] value = 224 -> i8042_send_scancode(d, 0)
    [] value = 254 -> [d EXCEPT !.c = cpu_reset(@)]
    [] OTHER -> d

KbcInputDone(d) == [d EXCEPT !.k.status = BitAnd(@, 253)]

KbcWriteCommand(d, value) ==
  IF value \in {96, 209, 211, 212} THEN KbcSwitch(d, value)
  ELSE KbcInputDone(KbcSwitch(d, value))

KbcMouseReset(d, value) ==
  IF value = 255
    THEN i8042_send_scancode(i8042_send_scancode(d, 170), 0)
    ELSE d

(* the switch on the pending command when its data byte arrives *)
KbcParameter(d, value) ==
  CASE d.k.command = 96 -> KbcSetCommandByte(d, value)
    [] d.k.command = 209 ->
         [d EXCEPT !.k.output_port = value,
                   !.c.a20_enabled = (Bit(value, 1) = 1)]
    [] d.k.command = 212 -> KbcMouseReset(i8042_send_scancode(d, 250), value)
    [] OTHER -> d

KbcWriteData(d, value) ==
  IF d.k.command # 0
    THEN KbcInputDone([KbcParameter(d, value) EXCEPT !.k.command = 0])
    ELSE i8042_send_scancode(d, 250)

i8042_write(d, port, value) ==
  IF port = 100
    THEN KbcWriteCommand([d EXCEPT !.k.status = BitOr(@, 2),
                                   !.k.command = value], value)
  ELSE IF port = 96 THEN KbcWriteData(d, value)
  ELSE d

KbcAdvance(d) ==
  IF d.k.head # d.k.tail
    THEN [d EXCEPT !.k.output_buffer = d.k.buffer[d.k.tail],
                   !.k.tail = KbcNext(d.k.tail)]
    ELSE [d EXCEPT !.k.status = BitAnd(@, 254)]

KbcReadIrq(d) == IF d.k.head # d.k.tail THEN KbcIrq(d) ELSE d

KbcReadDone(d) == [d EXCEPT !.k.status = BitAnd(@, 254)]

i8042_read(d, port) ==
  IF port = 100 THEN [d EXCEPT !.data = d.k.status]
  ELSE IF port = 96
    THEN KbcReadDone(KbcReadIrq(KbcAdvance(
           [d EXCEPT !.data = d.k.output_buffer])))
  ELSE [d EXCEPT !.data = 255]

----------------------------------------------------------------------------
(* The keyboard controller on its own: the host sends scancodes, the guest *)
(* reads and writes ports 60h and 64h.                                     *)

Scancodes == {30, 158}            \* make and break code of one key
KbcCommands == {96, 170, 174}
KbcDataValues == {68, 69}
Backlogs == {0, 14}               \* scancodes sent before the guest runs

KbcWith(k, m, c) == [k |-> k, m |-> m, c |-> c, data |-> 0]

(* the controller after the host has sent n scancodes *)
RECURSIVE KbcBacklog(_, _)
KbcBacklog(d, n) ==
  IF n = 0 THEN d
  ELSE CHOOSE r \in { i8042_send_scancode(b, IF n % 2 = 0 THEN 158 ELSE 30) :
                        b \in {KbcBacklog(d, n - 1)} } : TRUE

(* the bytes the ring took between two positions of head *)
RECURSIVE RingSlice(_, _, _)
RingSlice(buffer, from, to) ==
  IF from = to THEN <<>>
  ELSE <<buffer[from]>> \o RingSlice(buffer, KbcNext(from), to)

(* the ring was not full, so the byte was accepted *)
Accepted(k0, k1) == RingSlice(k1.buffer, k0.head, k1.head)

(* the accepted bytes that no read of port 60h has returned yet *)
Outstanding(pending, data) ==
  IF pending # <<>> /\ data = Head(pending) THEN Tail(pending) ELSE pending

KbcInit ==
  /\ cpu = cpu_reset(ZeroCpu(<<>>))
  /\ pic2 = i8259_init(TRUE)
  /\ cmos = cmos_init
  /\ phase = "kbc"
  /\ \E n \in Backlogs :
       \E d \in {KbcBacklog(KbcWith(i8042_init, i8259_init(FALSE), cpu), n)} :
         /\ kbc = d.k
         /\ pic = d.m
         /\ last = [kind |-> "init", data |-> 0, keys |-> 0, writes |-> 0,
                    pending |-> Accepted(i8042_init, d.k)]

(* main.c:149, menus.c:100: a key event of the host *)
KbcKey(scancode) ==
  /\ last.keys < MaxKeys
  /\ \E d \in {i8042_send_scancode(KbcWith(kbc, pic, cpu), scancode)} :
       /\ kbc' = d.k /\ pic' = d.m /\ cpu' = d.c
       /\ last' = [last EXCEPT !.kind = "key", !.keys = @ + 1, !.data = scancode,
                               !.pending = @ \o Accepted(kbc, d.k)]
  /\ UNCHANGED <<pic2, phase, cmos>>

(* IN 60h *)
KbcReadData ==
  /\ \E d \in {i8042_read(KbcWith(kbc, pic, cpu), 96)} :
       /\ kbc' = d.k /\ pic' = d.m /\ cpu' = d.c
       /\ last' = [last EXCEPT !.kind = "read60", !.data = d.data,
                               !.pending = Outstanding(@, d.data)]
  /\ UNCHANGED <<pic2, phase, cmos>>

(* IN 64h *)
KbcReadStatus ==
  /\ \E d \in {i8042_read(KbcWith(kbc, pic, cpu), 100)} :
       /\ kbc' = d.k /\ pic' = d.m /\ cpu' = d.c
       /\ last' = [last EXCEPT !.kind = "read64", !.data = d.data]
  /\ UNCHANGED <<pic2, phase, cmos>>

(* OUT 60h / OUT 64h *)
KbcWrite(port, value) ==
  /\ last.writes < MaxKbcWrites
  /\ \E d \in {i8042_write(KbcWith(kbc, pic, cpu), port, value)} :
       /\ kbc' = d.k /\ pic' = d.m /\ cpu' = d.c
       /\ last' = [last EXCEPT !.kind = "write", !.writes = @ + 1, !.data = value,
                               !.pending = @ \o Accepted(kbc, d.k)]
  /\ UNCHANGED <<pic2, phase, cmos>>

NextKbc ==
  \/ \E scancode \in Scancodes : KbcKey(scancode)
  \/ KbcReadData
  \/ KbcReadStatus
  \/ \E value \in KbcCommands : KbcWrite(100, value)
  \/ \E value \in KbcDataValues : KbcWrite(96, value)

SpecKbc == KbcInit /\ [][NextKbc]_vars

(* C35: every byte accepted by i8042_send_scancode (not dropped because   *)
(* the ring was full) is returned by reads of port 0x60 exactly once and  *)
(* in the order it was accepted: while accepted bytes are outstanding, a  *)
(* read of port 0x60 returns the oldest of them.                          *)
C35_ReadsReturnFifo ==
  [][ (last'.kind = "read60" /\ last.pending # <<>>)
        => last'.data = Head(last.pending) ]_vars

(* C36: status bit 0 as read from port 0x64 is set if and only if at    *)
(* least one accepted byte has not yet been returned by a read of port  *)
(* 0x60.                                                                *)
C36_StatusTellsOutstanding ==
  last.kind = "read64" => (Bit(last.data, 0) = 1 <=> last.pending # <<>>)

----------------------------------------------------------------------------
(* Rejected segment-register loads *)

(* the iteration asked load_descriptor for a selector before anything else *)
(* raised an interrupt, the selector was rejected with vector 11 or 13 and *)
(* the handler of that vector was entered                                  *)
LoadRejected(ev, v) ==
  /\ HasKind(ev, "ldreq")
  /\ \A j \in 1..FirstAt(ev, "ldreq") : ev[j][1] # "int"
  /\ FirstAt(ev, "ldreq") < Len(ev)
  /\ ev[FirstAt(ev, "ldreq") + 1] = <<"int", v>>
  /\ Has(ev, "enter", v)
  /\ ~HasKind(ev, "reset")

RejectedReg(ev) == SegAt[(FirstArg(ev, "ldreq") \div 65536) + 1]

(* the words of the interrupt frame below the old stack pointer *)
FrameBytes(v) == 2 * (3 + Len(ErrorCode(v)))

(* the CS word of the frame the handler was entered with *)
HandlerFrameCS(c, v) ==
  cpu_readw(c, c.segcache.ss.base + c.regs.sp + 2 * Len(ErrorCode(v)) + 2)

(* MOV Sw,Ew and the far JMP and CALL take nothing from the stack *)
PushesNothing(ev) == \E op \in {142, 154, 234} : Has(ev, "dispatch", op)

(* C37: when load_descriptor rejects a selector (vector 11 or 13) during *)
(* MOV/POP to a segment register, far JMP, far CALL or IRET, the segment *)
(* register still holds its previous selector and its descriptor cache   *)
(* its previous contents when the fault handler starts (for CS: the      *)
(* selector saved in the handler's frame is the previous one), and       *)
(* nothing other than the interrupt frame has been pushed on the stack.  *)
C37_RejectedLoadKeepsRegister ==
  [][ \A v \in {11, 13} :
        (last'.kind = "exec" /\ cpu.protected_mode /\ LoadRejected(cpu'.ev, v)) =>
          /\ cpu'.segcache[RejectedReg(cpu'.ev)] = cpu.segcache[RejectedReg(cpu'.ev)]
               \/ RejectedReg(cpu'.ev) = "cs"
          /\ IF RejectedReg(cpu'.ev) = "cs"
               THEN HandlerFrameCS(cpu', v) = cpu.segregs.cs
               ELSE cpu'.segregs[RejectedReg(cpu'.ev)]
                      = cpu.segregs[RejectedReg(cpu'.ev)]
          /\ PushesNothing(cpu'.ev)
               => cpu'.regs.sp = W16(cpu.regs.sp - FrameBytes(v)) ]_vars

----------------------------------------------------------------------------
(* The prefix-limit fault *)

(* C38: when the prefix-limit fault (interrupt 13) is raised during prefix *)
(* collection, no opcode is dispatched in that iteration: the iteration    *)
(* ends with the interrupt entry, so that apart from the entry nothing is  *)
(* modified and no second interrupt is raised before the handler's first   *)
(* instruction executes.                                                   *)
C38_PrefixLimitEndsIteration ==
  (last.kind = "exec" /\ HasKind(cpu.ev, "pfxlimit")) =>
     /\ ~HasKind(cpu.ev, "dispatch")
     /\ cpu.ev[Len(cpu.ev)][1] \in IntOutcomes

----------------------------------------------------------------------------
(* Leaving protected mode *)

(* C39: once protected mode has been entered, no instruction (LMSW,     *)
(* LOADALL, CLTS or any other) clears MSW bit 0 or the protected_mode   *)
(* flag; only cpu_reset returns the machine to real mode.               *)
C39_ProtectedModeSticks ==
  [][ (cpu.protected_mode /\ ~HasKind(cpu'.ev, "reset"))
        => (cpu'.protected_mode /\ cpu'.msw % 2 = 1) ]_vars

(* LMSW with PE clear in the operand has run at ring 0 of protected mode *)
C39_Witness ==
  /\ last.kind = "exec"
  /\ Has(cpu.ev, "dispatch", 15) /\ cpu.opcode = 1 /\ cpu.reg = 6
  /\ cpu.regs.ax = 0 /\ cpu.ip = 6
  /\ cpu.protected_mode /\ cpu.msw = 65521

----------------------------------------------------------------------------
(* The state a reset leaves *)

(* the architecturally visible state cpu_reset returned with *)
Visible(v) ==
  [regs |-> v.regs, segregs |-> v.segregs, ip |-> v.ip, flags |-> v.flags,
   msw |-> v.msw, gdtr |-> v.gdtr, idtr |-> v.idtr, ldtr |-> v.ldtr,
   tr |-> v.tr, segcache |-> v.segcache, ldtr_cache |-> v.ldtr_cache,
   tr_cache |-> v.tr_cache, hltstate |-> v.hltstate,
   trap_toggle |-> v.trap_toggle, handling_fault |-> v.handling_fault]

(* C40: the CPU state after cpu_reset does not depend on the state before *)
(* it: the general registers, the four segment selectors, IP, the flag    *)
(* bits CF ZF SF OF PF AF IF TF DF, MSW, the descriptor-table registers   *)
(* and caches and the halt, trap-toggle and fault latches are those of    *)
(* the reset at power-on, whatever the machine did before the reset.      *)
C40_ResetStateIsFixed ==
  Visible(cpu.atreset) = Visible(cpu_reset(ZeroCpu(<<>>)).atreset)

====
